---- MODULE Spec2Model ----
(***************************************************************************)
(* ADM1 simulation dashboard: feedstock resolution (simulation_helpers.py),*)
(* extraction of AI recommendations (app.py) and the Streamlit script of   *)
(* main.py, which keeps the session state and runs the three simulations.  *)
(***************************************************************************)
EXTENDS Integers, Sequences, FiniteSets, TLC

VARIABLES
    \* ---- st.session_state of main.py ----
    influent_values,        \* dict name -> value          (main.py:38)
    influent_explanations,  \* dict name -> explanation    (main.py:40)
    kinetic_params,         \* dict name -> value          (main.py:44)
    kinetic_explanations,   \* dict name -> explanation    (main.py:46)
    use_kinetics,           \* bool                        (main.py:50)
    Q,                      \* common flow                 (main.py:54)
    sim_params,             \* three dicts Temp/HRT/method (main.py:58)
    sim_results,            \* three stored results        (main.py:66)
    simulation_time,        \* horizon, in 1/100 day       (main.py:70)
    t_step,                 \* time step, in 1/100 day     (main.py:72)
    ai_recommendations,     \* raw AI response or None     (main.py:76)
    \* ---- the process environment ----
    api_key,                \* is GEMINI_API_KEY set          (app.py:35)
    \* ---- position of the script inside one rerun ----
    pc,                     \* "idle" between reruns; in a rerun, the part of the script that
                            \* was passed last: "radio" (main.py:84), "request" (waiting for
                            \* the AI service), "assistant" (98-124), "main" (128-182),
                            \* "running" (the loop of 194), "panels" (185-208)
    slot,                   \* loop variable i of main.py:194 (1-based here)
    \* ---- what the external engine and the user observed ----
    engine_calls,           \* per slot: what run_simulation handed to the engine in the last Run All
    returned,               \* per slot: how the call of run_simulation ended in the last Run All
    notice,                 \* was st.success of main.py:208 shown by the last rerun
    nruns,                  \* number of Run All clicks so far (names the handles)
    npass,                  \* number of reruns so far
    ai_call,                \* what the AI block of this rerun (main.py:98-124) asked and got
    feed_overrides,         \* every feedstock value an edit or an ingestion stored, latest last
    kin_overrides,          \* the same for the kinetic values
    page,                   \* how many number_inputs of each manual panel are on the page
    edited,                 \* the fields of the manual panels the user has changed by hand
    \* ---- harness of the pure functions ----
    response_text,          \* argument of parse_ai_recommendations
    include_kinetics,       \* argument of parse_ai_recommendations
    parsed,                 \* its return value (and how it returned)
    concentrations,         \* argument of run_simulation / create_influent_stream
    resolved,               \* what the call handed to the engine
    stream,                 \* argument of display_gas_stream
    gas_table               \* the table it displays

vars == << influent_values, influent_explanations, kinetic_params,
           kinetic_explanations, use_kinetics, Q, sim_params, sim_results,
           simulation_time, t_step,
           ai_recommendations, pc, slot, engine_calls, returned, notice,
           nruns, npass, api_key, ai_call, feed_overrides,
           kin_overrides, page, edited, response_text, include_kinetics, parsed,
           concentrations, resolved, stream, gas_table >>

sessionVars == << influent_values, influent_explanations, kinetic_params,
                  kinetic_explanations, use_kinetics, Q, sim_params,
                  sim_results, simulation_time, t_step, ai_recommendations,
                  pc, slot, engine_calls, returned, notice, nruns, npass, api_key, ai_call, feed_overrides,
                  kin_overrides, page, edited >>

parseVars == << response_text, include_kinetics, parsed >>

resolveVars == << concentrations, resolved >>

gasVars == << stream, gas_table >>

-----------------------------------------------------------------------------
(* Numbers.  A Python float is written m * 10^e * u, where u is 1 or one   *)
(* of the two molecular weights the code reads from the chemicals package. *)

Dec(m, e) == [m |-> m, e |-> e, u |-> "1"]

\* get_mw({'C': 1}) and get_mw({'N': 1}) stay symbolic factors.
TimesMw(d, mw) == [m |-> d.m, e |-> d.e, u |-> mw]

Zero == Dec(0, 0)

\* Python dicts are functions; {} is the function of empty domain.
EmptyMap == [x \in {} |-> Zero]

Put(d, k, v) == [x \in (DOMAIN d) \cup {k} |-> IF x = k THEN v ELSE d[x]]

\* dict.update(other)
Update(d, other) ==
    [x \in (DOMAIN d) \cup (DOMAIN other) |->
        IF x \in DOMAIN other THEN other[x] ELSE d[x]]

\* Python truthiness of a dict
Truthy(d) == DOMAIN d # {}

-----------------------------------------------------------------------------
(* Python floats where rounding decides (the reactor volumes and the       *)
(* sampling grid): IEEE-754 binary64, round to nearest, ties to even.  A   *)
(* float is m * 2^e with m a natural number of at most 53 bits, written as *)
(* its bits, most significant first, odd or empty (zero).  The values of   *)
(* the model are non-negative and far from overflow and from subnormals.   *)

Precision == 53

\* without its leading zeros
Strip(b) ==
    IF \A i \in 1 .. Len(b) : b[i] = 0 THEN << >>
    ELSE LET k == CHOOSE i \in 1 .. Len(b) :
                      b[i] = 1 /\ \A j \in 1 .. (i - 1) : b[j] = 0
         IN  SubSeq(b, k, Len(b))

RECURSIVE BitsOf(_)
BitsOf(n) == IF n = 0 THEN << >> ELSE Append(BitsOf(n \div 2), n % 2)

RECURSIVE IntOf(_)
IntOf(b) ==
    IF b = << >> THEN 0 ELSE 2 * IntOf(SubSeq(b, 1, Len(b) - 1)) + b[Len(b)]

Zeros(k) == [i \in 1 .. k |-> 0]

\* bit of weight 2^i
BitAt(b, i) == IF i < Len(b) THEN b[Len(b) - i] ELSE 0

Max(a, b) == IF a >= b THEN a ELSE b

\* one column of the addition: s.acc holds the bits of the sum of weight
\* < Len(s.acc), s.c is the carry into the next weight
AddStep(a, b, s) ==
    LET t == BitAt(a, Len(s.acc)) + BitAt(b, Len(s.acc)) + s.c
    IN  [c |-> t \div 2, acc |-> << t % 2 >> \o s.acc]

\* n columns, by halves
RECURSIVE AddRun(_, _, _, _)
AddRun(a, b, s, n) ==
    IF n = 0 THEN s
    ELSE IF n = 1 THEN AddStep(a, b, s)
    ELSE LET half == AddRun(a, b, s, n \div 2)
         IN  IF half.c \in {0, 1} THEN AddRun(a, b, half, n - n \div 2) ELSE s

AddBits(a, b) ==
    Strip(AddRun(a, b, [c |-> 0, acc |-> << >>], Max(Len(a), Len(b)) + 1).acc)

\* one column of a - b, for a >= b; s.c is the borrow out of the bits of
\* weight < Len(s.acc)
SubStep(a, b, s) ==
    LET d == BitAt(a, Len(s.acc)) - BitAt(b, Len(s.acc)) - s.c
    IN  [c |-> IF d < 0 THEN 1 ELSE 0, acc |-> << (d + 2) % 2 >> \o s.acc]

RECURSIVE SubRun(_, _, _, _)
SubRun(a, b, s, n) ==
    IF n = 0 THEN s
    ELSE IF n = 1 THEN SubStep(a, b, s)
    ELSE LET half == SubRun(a, b, s, n \div 2)
         IN  IF half.c \in {0, 1} THEN SubRun(a, b, half, n - n \div 2) ELSE s

SubBits(a, b) == Strip(SubRun(a, b, [c |-> 0, acc |-> << >>], Len(a)).acc)

\* a >= b, for a and b without leading zeros
GeqBits(a, b) ==
    IF Len(a) # Len(b) THEN Len(a) > Len(b)
    ELSE IF a = b THEN TRUE
    ELSE LET i == CHOOSE k \in 1 .. Len(a) :
                      a[k] # b[k] /\ \A j \in 1 .. (k - 1) : a[j] = b[j]
         IN  a[i] > b[i]

Shl(a, k) == IF a = << >> THEN a ELSE a \o Zeros(k)

\* a times the bits lo .. hi of b, in units of the weight of bit hi
RECURSIVE MulRange(_, _, _, _)
MulRange(a, b, lo, hi) ==
    IF lo > hi THEN << >>
    ELSE IF lo = hi THEN (IF b[lo] = 1 THEN a ELSE << >>)
    ELSE LET mid  == (lo + hi) \div 2
             high == MulRange(a, b, lo, mid)
             low  == MulRange(a, b, mid + 1, hi)
         IN  IF Len(high) >= 0 /\ Len(low) >= 0
             THEN AddBits(Shl(high, hi - mid), low)
             ELSE << >>

\* a times b
MulBits(a, b) == MulRange(a, b, 1, Len(b))

\* long division, one bit of a at a time: s.q is the quotient and s.r the
\* remainder of the first Len(s.q) bits of a by b
DivModStep(a, b, s) ==
    LET r2 == Strip(Append(s.r, a[Len(s.q) + 1]))
    IN  IF GeqBits(r2, b)
        THEN [q |-> Append(s.q, 1), r |-> SubBits(r2, b)]
        ELSE [q |-> Append(s.q, 0), r |-> r2]

RECURSIVE DivModRun(_, _, _, _)
DivModRun(a, b, s, n) ==
    IF n = 0 THEN s
    ELSE IF n = 1 THEN DivModStep(a, b, s)
    ELSE LET half == DivModRun(a, b, s, n \div 2)
         IN  IF Len(half.q) >= 0 /\ Len(half.r) >= 0
             THEN DivModRun(a, b, half, n - n \div 2)
             ELSE s

\* the quotient and the remainder of a by b, b # 0: the first Len(b) - 1
\* bits of a are less than b
DivModBits(a, b) ==
    IF Len(a) < Len(b) THEN [q |-> << >>, r |-> a]
    ELSE LET s == DivModRun(a, b, [q |-> Zeros(Len(b) - 1),
                                   r |-> Strip(SubSeq(a, 1, Len(b) - 1))],
                            Len(a) - Len(b) + 1)
         IN  [q |-> Strip(s.q), r |-> s.r]

\* the number of zeros at the end of b # << >>, b not all zeros
TrailingZeros(b) ==
    Len(b) - (CHOOSE i \in 1 .. Len(b) :
                  b[i] = 1 /\ \A j \in (i + 1) .. Len(b) : b[j] = 0)

\* the same value with an odd mantissa
Normal(m, e) ==
    IF m = << >> THEN [m |-> << >>, e |-> 0]
    ELSE LET z == TrailingZeros(m)
         IN  [m |-> SubSeq(m, 1, Len(m) - z), e |-> e + z]

\* the float nearest to m * 2^e (+ a positive fraction of 2^e when sticky)
RoundToDouble(m, e, sticky) ==
    IF Len(m) <= Precision THEN Normal(m, e)
    ELSE LET k     == Len(m) - Precision
             top   == SubSeq(m, 1, Precision)
             guard == m[Precision + 1]
             rest  == sticky \/ \E j \in (Precision + 2) .. Len(m) : m[j] = 1
             up    == guard = 1 /\ (rest \/ top[Precision] = 1)
         IN  Normal(IF up THEN AddBits(top, << 1 >>) ELSE top, e + k)

FromInt(n) == Normal(BitsOf(n), 0)

FAdd(x, y) ==
    IF x.m = << >> THEN y
    ELSE IF y.m = << >> THEN x
    ELSE LET e == IF x.e <= y.e THEN x.e ELSE y.e
         IN  RoundToDouble(AddBits(Shl(x.m, x.e - e), Shl(y.m, y.e - e)), e, FALSE)

FMul(x, y) ==
    IF x.m = << >> THEN x
    ELSE IF y.m = << >> THEN y
    ELSE RoundToDouble(IF Len(x.m) >= Len(y.m) THEN MulBits(x.m, y.m)
                       ELSE MulBits(y.m, x.m),
                       x.e + y.e, FALSE)

\* x / y, y # 0: the quotient is developed to at least Precision + 2 bits
FDiv(x, y) ==
    IF x.m = << >> \/ y.m = << >> THEN x
    ELSE LET k  == Precision + 2 + Len(y.m) - Len(x.m)
             s  == IF k > 0 THEN k ELSE 0
             qr == DivModBits(Shl(x.m, s), y.m)
         IN  RoundToDouble(qr.q, x.e - y.e - s, qr.r # << >>)

FLeq(x, y) ==
    LET e == IF x.e <= y.e THEN x.e ELSE y.e
    IN  GeqBits(Shl(y.m, y.e - e), Shl(x.m, x.e - e))

\* math.ceil of a float (a small whole number)
Ceil(x) ==
    IF x.e >= 0 THEN IntOf(Shl(x.m, x.e))
    ELSE IF Len(x.m) <= -x.e THEN (IF x.m = << >> THEN 0 ELSE 1)
    ELSE IntOf(SubSeq(x.m, 1, Len(x.m) + x.e)) + 1

\* the float written as the decimal literal c/100 (0.1 is Hundredths(10))
Hundredths(c) == FDiv(FromInt(c), FromInt(100))

\* np.arange(0, stop, step) of float64: ceil((stop - 0) / step) items, item 0
\* is 0, item 1 is 0 + step and item i is 0 + i * (item 1 - item 0).  The
\* array is kept as its length, its step and its first and last items.
np_arange_item(step, i) == FMul(FromInt(i), step)

np_arange(stop, step) ==
    LET length == Ceil(FDiv(stop, step))
    IN  [len |-> length, step |-> step,
         first |-> np_arange_item(step, 0),
         last |-> np_arange_item(step, length - 1)]

\* The values the model gives to the flow (m3/d), the retention time (d),
\* the horizon and the time step (1/100 d).
FlowValues == {3, 100, 170, 171}
HrtValues == {1, 20, 30, 45, 60}
HorizonValues == {1000, 1500, 3000, 5500, 10000, 15000}
StepValues == {3, 10, 30, 50, 55}

-----------------------------------------------------------------------------
(* The feedstock registry: the default table of run_simulation.            *)

default_conc ==
    [ S_su  |-> Dec(1, -2),  S_aa  |-> Dec(1, -3),  S_fa  |-> Dec(1, -3),
      S_va  |-> Dec(1, -3),  S_bu  |-> Dec(1, -3),  S_pro |-> Dec(1, -3),
      S_ac  |-> Dec(1, -3),  S_h2  |-> Dec(1, -8),  S_ch4 |-> Dec(1, -5),
      S_IC  |-> TimesMw(Dec(4, -2), "C_mw"),
      S_IN  |-> TimesMw(Dec(1, -2), "N_mw"),
      S_I   |-> Dec(2, -2),  X_c   |-> Dec(2, 0),   X_ch  |-> Dec(5, 0),
      X_pr  |-> Dec(2, 1),   X_li  |-> Dec(5, 0),   X_su  |-> Dec(1, -2),
      X_aa  |-> Dec(1, -2),  X_fa  |-> Dec(1, -2),  X_c4  |-> Dec(1, -2),
      X_pro |-> Dec(1, -2),  X_ac  |-> Dec(1, -2),  X_h2  |-> Dec(1, -2),
      X_I   |-> Dec(25, 0),  S_cat |-> Dec(4, -2),  S_an  |-> Dec(2, -2) ]

\* The second copy of the table, in create_influent_stream.
default_conc_inf ==
    [ S_su  |-> Dec(1, -2),  S_aa  |-> Dec(1, -3),  S_fa  |-> Dec(1, -3),
      S_va  |-> Dec(1, -3),  S_bu  |-> Dec(1, -3),  S_pro |-> Dec(1, -3),
      S_ac  |-> Dec(1, -3),  S_h2  |-> Dec(1, -8),  S_ch4 |-> Dec(1, -5),
      S_IC  |-> TimesMw(Dec(4, -2), "C_mw"),
      S_IN  |-> TimesMw(Dec(1, -2), "N_mw"),
      S_I   |-> Dec(2, -2),  X_c   |-> Dec(2, 0),   X_ch  |-> Dec(5, 0),
      X_pr  |-> Dec(2, 1),   X_li  |-> Dec(5, 0),   X_su  |-> Dec(1, -2),
      X_aa  |-> Dec(1, -2),  X_fa  |-> Dec(1, -2),  X_c4  |-> Dec(1, -2),
      X_pro |-> Dec(1, -2),  X_ac  |-> Dec(1, -2),  X_h2  |-> Dec(1, -2),
      X_I   |-> Dec(25, 0),  S_cat |-> Dec(4, -2),  S_an  |-> Dec(2, -2) ]

\* for k, v in concentrations.items(): if k in default_conc: default_conc[k] = v
\* (default_conc is a local dict, built anew by every call)
OverlayMutantTruthy(defaults, conc) ==
    [n \in DOMAIN defaults |->
        IF n \in DOMAIN conc /\ conc[n] # Zero THEN conc[n] ELSE defaults[n]]

Overlay(defaults, conc) ==
    [n \in DOMAIN defaults |->
        IF n \in DOMAIN conc THEN conc[n] ELSE defaults[n]]

-----------------------------------------------------------------------------
(* parse_ai_recommendations (app.py).                                      *)
(*                                                                         *)
(* The response text is a sequence of tokens: an opening brace, a closing  *)
(* brace, a comma, a piece of prose that holds no brace, or one            *)
(*   "key": value                                                          *)
(* member, whose value is a JSON scalar or an array of JSON scalars (no    *)
(* string of the model holds a brace).                                     *)

LBRACE == [t |-> "lbrace"]
RBRACE == [t |-> "rbrace"]
COMMA  == [t |-> "comma"]
PROSE  == [t |-> "prose"]
Member(k, v) == [t |-> "pair", key |-> k, val |-> v]

JNum(d)   == [j |-> "num", n |-> d]
JStr(s)   == [j |-> "str", s |-> s]
JNull     == [j |-> "null"]
JList(xs) == [j |-> "list", items |-> xs]

\* Known feedstock keys
feedstock_keys ==
    { "S_su", "S_aa", "S_fa", "S_va", "S_bu", "S_pro", "S_ac", "S_h2", "S_ch4",
      "S_IC", "S_IN", "S_I", "X_c", "X_ch", "X_pr", "X_li", "X_su", "X_aa",
      "X_fa", "X_c4", "X_pro", "X_ac", "X_h2", "X_I", "S_cat", "S_an" }

\* Known kinetic keys
kinetic_keys ==
    { "q_dis", "q_ch_hyd", "q_pr_hyd", "q_li_hyd",
      "k_su", "k_aa", "k_fa", "k_c4", "k_pro", "k_ac", "k_h2",
      "b_su", "b_aa", "b_fa", "b_c4", "b_pro", "b_ac", "b_h2",
      "K_su", "K_aa", "K_fa", "K_c4", "K_pro", "K_ac", "K_h2",
      "KI_h2_fa", "KI_h2_c4", "KI_h2_pro", "KI_nh3", "KS_IN",
      "Y_su", "Y_aa", "Y_fa", "Y_c4", "Y_pro", "Y_ac", "Y_h2",
      "f_bu_su", "f_pro_su", "f_ac_su", "f_va_aa", "f_bu_aa",
      "f_pro_aa", "f_ac_aa", "f_ac_fa", "f_pro_va", "f_ac_va",
      "f_ac_bu", "f_ac_pro" }

\* float(str): the strings of the model that Python reads as a number.
NumericStrings == [ s \in {"2.5"} |-> Dec(25, -1) ]

\* float(x) for a JSON value x: the number, or the exception Python raises.
PyFloat(x) ==
    CASE x.j = "num"  -> [ok |-> TRUE, val |-> x.n, exc |-> "none"]
      [] x.j = "str"  -> IF x.s \in DOMAIN NumericStrings
                         THEN [ok |-> TRUE, val |-> NumericStrings[x.s], exc |-> "none"]
                         ELSE [ok |-> FALSE, val |-> Zero, exc |-> "ValueError"]
      [] OTHER        -> [ok |-> FALSE, val |-> Zero, exc |-> "TypeError"]

\* re.search(r'\{.*\}', response_text, re.DOTALL): the leftmost opening brace
\* that a closing brace follows, through the last closing brace of the text.
RECURSIVE FirstIndex(_, _, _)
FirstIndex(text, tok, i) ==
    IF i > Len(text) THEN 0
    ELSE IF text[i].t = tok.t THEN i
    ELSE FirstIndex(text, tok, i + 1)

RECURSIVE LastIndex(_, _, _)
LastIndex(text, tok, i) ==
    IF i < 1 THEN 0
    ELSE IF text[i].t = tok.t THEN i
    ELSE LastIndex(text, tok, i - 1)

\* A lazy quantifier (r'\{.*?\}') stops at the first closing brace.
ReSearchMutantLazy(text) ==
    LET a == FirstIndex(text, LBRACE, 1)
        b == IF a = 0 THEN 0 ELSE FirstIndex(text, RBRACE, a + 1)
    IN  IF a = 0 \/ b = 0
        THEN [found |-> FALSE, group |-> << >>]
        ELSE [found |-> TRUE, group |-> SubSeq(text, a, b)]

ReSearch(text) ==
    LET a == FirstIndex(text, LBRACE, 1)
        b == LastIndex(text, RBRACE, Len(text))
    IN  IF a = 0 \/ b < a
        THEN [found |-> FALSE, group |-> << >>]
        ELSE [found |-> TRUE, group |-> SubSeq(text, a, b)]

\* A Python dict built by json.loads keeps one entry per key, at the place of
\* the key's first occurrence and with the value of its last.
RECURSIVE DictInsert(_, _, _, _)
DictInsert(d, k, v, i) ==
    IF i > Len(d) THEN Append(d, [key |-> k, val |-> v])
    ELSE IF d[i].key = k THEN [d EXCEPT ![i] = [key |-> k, val |-> v]]
    ELSE DictInsert(d, k, v, i + 1)

\* json.loads of a text that opens with a brace: the members, separated by
\* commas, up to the closing brace, which must end the text.
RECURSIVE JsonMembers(_, _, _)
JsonMembers(toks, i, d) ==
    \* position i is where a member is expected
    IF i > Len(toks) \/ toks[i].t # "pair"
    THEN [ok |-> FALSE, data |-> << >>]
    ELSE LET d2 == DictInsert(d, toks[i].key, toks[i].val, 1) IN
         IF i + 1 > Len(toks) THEN [ok |-> FALSE, data |-> << >>]
         ELSE IF toks[i + 1].t = "rbrace"
              THEN IF i + 1 = Len(toks) THEN [ok |-> TRUE, data |-> d2]
                   ELSE [ok |-> FALSE, data |-> << >>]
         ELSE IF toks[i + 1].t = "comma" THEN JsonMembers(toks, i + 2, d2)
         ELSE [ok |-> FALSE, data |-> << >>]

JsonLoads(toks) ==
    IF Len(toks) < 2 \/ toks[1].t # "lbrace"
    THEN [ok |-> FALSE, data |-> << >>]
    ELSE IF toks[2].t = "rbrace"
         THEN IF Len(toks) = 2 THEN [ok |-> TRUE, data |-> << >>]
              ELSE [ok |-> FALSE, data |-> << >>]
    ELSE JsonMembers(toks, 2, << >>)

\* not isinstance(arr, list) or len(arr) < 3  ->  continue
ShapeOkMutantTwo(arr) == arr.j = "list" /\ Len(arr.items) >= 2

ShapeOk(arr) == arr.j = "list" /\ Len(arr.items) >= 3

\* the if / elif / else of the loop body
ClassifyMutantAllFeedstock(key, incl) ==
    IF incl /\ key \in kinetic_keys THEN "kinetic" ELSE "feedstock"

ClassifyMutantUnknownKinetic(key, incl) ==
    IF key \in feedstock_keys THEN "feedstock"
    ELSE IF incl THEN "kinetic"
    ELSE "discard"

ClassifyMutantIgnoresMode(key, incl) ==
    IF key \in feedstock_keys THEN "feedstock"
    ELSE IF key \in kinetic_keys THEN "kinetic"
    ELSE "discard"

Classify(key, incl) ==
    IF key \in feedstock_keys THEN "feedstock"
    ELSE IF incl /\ key \in kinetic_keys THEN "kinetic"
    ELSE "discard"

\* the two assignments of a branch: the value and its explanation
RecordMutantNoNullExplanation(acc, dom, key, val, explanation) ==
    IF dom = "feedstock"
    THEN [acc EXCEPT !.fv = Put(acc.fv, key, val),
                     !.fe = IF explanation = JNull THEN acc.fe
                            ELSE Put(acc.fe, key, explanation)]
    ELSE IF dom = "kinetic"
    THEN [acc EXCEPT !.kv = Put(acc.kv, key, val),
                     !.ke = IF explanation = JNull THEN acc.ke
                            ELSE Put(acc.ke, key, explanation)]
    ELSE acc

Record(acc, dom, key, val, explanation) ==
    IF dom = "feedstock"
    THEN [acc EXCEPT !.fv = Put(acc.fv, key, val),
                     !.fe = Put(acc.fe, key, explanation)]
    ELSE IF dom = "kinetic"
    THEN [acc EXCEPT !.kv = Put(acc.kv, key, val),
                     !.ke = Put(acc.ke, key, explanation)]
    ELSE acc

\* for key, arr in data.items(): ...   acc.exc names the exception that left
\* the loop ("none" when the loop ran to its end).
RECURSIVE ParseLoop(_, _, _, _)
ParseLoop(data, i, acc, incl) ==
    IF i > Len(data) THEN acc
    ELSE LET key == data[i].key
             arr == data[i].val
         IN  IF ~ShapeOk(arr) THEN ParseLoop(data, i + 1, acc, incl)
             ELSE LET f == PyFloat(arr.items[1]) IN
                  IF ~f.ok THEN [acc EXCEPT !.exc = f.exc]
                  ELSE IF Len(arr.items) < 3 THEN [acc EXCEPT !.exc = "IndexError"]
                  ELSE ParseLoop(data, i + 1,
                                 Record(acc, Classify(key, incl), key, f.val, arr.items[3]),
                                 incl)

\* except Exception as e: every exception the try block can raise is an Exception.
CatchesMutantValueError(exc) == exc = "ValueError"

Catches(exc) == exc \in {"ValueError", "TypeError", "IndexError", "JSONDecodeError"}

NoMaps == [fv |-> EmptyMap, fe |-> EmptyMap, kv |-> EmptyMap, ke |-> EmptyMap,
           exc |-> "none"]

\* The call: how it left ("return" or "raise"), by which path, and the tuple
\* (feedstock_values, feedstock_explanations, kinetic_values, kinetic_explanations).
Returned(path, acc) ==
    [outcome |-> "return", path |-> path,
     ret |-> << acc.fv, acc.fe, acc.kv, acc.ke >>]

Raised(exc) == [outcome |-> "raise", path |-> exc, ret |-> << >>]

parse_ai_recommendations(text, incl) ==
    LET json_match == ReSearch(text) IN
    IF ~json_match.found THEN Returned("nomatch", NoMaps)
    ELSE LET loaded == JsonLoads(json_match.group) IN
         IF ~loaded.ok
         THEN IF Catches("JSONDecodeError") THEN Returned("except", NoMaps)
              ELSE Raised("JSONDecodeError")
         ELSE LET acc == ParseLoop(loaded.data, 1, NoMaps, incl) IN
              IF acc.exc = "none" THEN Returned("normal", acc)
              ELSE IF Catches(acc.exc) THEN Returned("except", acc)
              ELSE Raised(acc.exc)

-----------------------------------------------------------------------------
(* run_simulation and create_influent_stream (simulation_helpers.py).      *)
(*                                                                         *)
(* The engine (qsdsan) is external: `fault` names the engine call that     *)
(* raises, "none" when none does.  The result of a call is what it handed  *)
(* to the engine, in order, and what it returned.  Q and HRT are whole     *)
(* numbers, times are in 1/100 day and temperatures in 1/100 K; the        *)
(* volumes and the sampling grid are the floats Python computes.           *)

PyNone == [kind |-> "None"]

Handle(kind, id) == [kind |-> kind, id |-> id]

\* the engine calls of the try block of run_simulation, in the order of the
\* code; a fault names the call that raises ("none": no call raises).
\* AD.set_init_conc, System, sys.set_dynamic_tracker and np.arange raise after
\* the reactor was built and before sys.simulate is called.
EngineFaults ==
    { "none", "ADM1", "WasteStream", "get_mw", "set_flow_by_concentration",
      "AnaerobicCSTR", "set_init_conc", "System", "set_dynamic_tracker",
      "np.arange", "simulate" }

\* the engine calls of create_influent_stream
InfluentFaults == { "none", "WasteStream", "get_mw", "set_flow_by_concentration" }

\* the literal 0.1 of V_gas=Q*HRT*0.1
PointOne == Hundredths(10)

\* V_liq=Q*HRT, V_gas=Q*HRT*0.1, as Python evaluates them (left to right),
\* tabulated over the values of the model
ReactorVolumesMutantGasOfFlow ==
    [q \in FlowValues, h \in HrtValues |->
        [V_liq |-> FMul(FromInt(q), FromInt(h)),
         V_gas |-> FMul(FromInt(q), PointOne)]]

ReactorVolumes ==
    [q \in FlowValues, h \in HrtValues |->
        [V_liq |-> FMul(FromInt(q), FromInt(h)),
         V_gas |-> FMul(FMul(FromInt(q), FromInt(h)), PointOne)]]

\* t_eval=np.arange(0, simulation_time+t_step, t_step), tabulated over the
\* values of the model
SamplingGrid ==
    [T \in HorizonValues, d \in StepValues |->
        np_arange(FAdd(Hundredths(T), Hundredths(d)), Hundredths(d))]

\* if use_kinetics and kinetic_params: pc.ADM1(**kinetic_params) else: pc.ADM1()
AdmKwargs(kin, use_kin) ==
    IF use_kin /\ Truthy(kin) THEN kin ELSE EmptyMap

\* except Exception as e: st.error(...); return None, None, None, None
FailureReturn(id) == << PyNone, PyNone, PyNone, PyNone >>

\* default_conc = {...} stands in the body of the function: every call builds
\* the table anew, and the table a call has overlaid is dropped at its return
LocalTableMutantModuleLevel(literal) ==
    IF resolved.outcome = "called" /\ resolved.call.influent # << >>
    THEN resolved.call.influent[1].concentrations
    ELSE literal

LocalTable(literal) == literal

run_simulation(Qv, Temp, HRT, conc, kin, sim_time, step, method, use_kin, fault, id) ==
    LET adm1   == [kwargs |-> AdmKwargs(kin, use_kin)]
        inflow == [Q |-> Qv, T |-> Temp,
                   concentrations |-> Overlay(LocalTable(default_conc), conc),
                   units |-> << "m3/d", "kg/m3" >>]
        reactor == [V_liq |-> ReactorVolumes[Qv, HRT].V_liq,
                    V_gas |-> ReactorVolumes[Qv, HRT].V_gas, T |-> Temp]
        sim    == [t_span |-> << 0, sim_time >>,
                   t_eval |-> SamplingGrid[sim_time, step],
                   method |-> method]
        upto   == CASE fault \in {"ADM1", "WasteStream", "get_mw"} -> 1
                    [] fault = "set_flow_by_concentration" -> 2
                    [] fault \in {"AnaerobicCSTR", "set_init_conc", "System",
                                  "set_dynamic_tracker", "np.arange"} -> 3
                    [] fault = "simulate" -> 4
                    [] OTHER -> 4
    IN  [ADM1     |-> << adm1 >>,
         influent |-> IF upto >= 2 THEN << inflow >> ELSE << >>,
         reactor  |-> IF upto >= 3 THEN << reactor >> ELSE << >>,
         simulate |-> IF upto >= 4 THEN << sim >> ELSE << >>,
         ret      |-> IF fault = "none"
                      THEN << Handle("sys", id), Handle("inf", id),
                              Handle("eff", id), Handle("gas", id) >>
                      ELSE FailureReturn(id)]

create_influent_stream(Qv, Temp, conc, fault) ==
    LET inflow == [Q |-> Qv, T |-> Temp,
                   concentrations |-> Overlay(LocalTable(default_conc_inf), conc),
                   units |-> << "m3/d", "kg/m3" >>]
    IN  [influent |-> IF fault \in {"WasteStream", "get_mw"} THEN << >> ELSE << inflow >>,
         ret      |-> IF fault = "none" THEN Handle("inf", [run |-> 0, slot |-> 0]) ELSE PyNone]

-----------------------------------------------------------------------------
(* Bounds and input sets.                                                  *)

MaxEntries == 2     \* members of the JSON object of a generated response
MaxRaw == 2         \* tokens of an unstructured response
MaxPasses == 2      \* user interactions (reruns of the script) in a session
MaxRuns == 2        \* Run All clicks in a session
MaxChanges == 1     \* values the user changes by hand: of the sidebar, of the manual panels
MaxFailures == 1    \* slots whose run fails in one Run All

Slots == 1 .. 3     \* for i in range(3)

\* ---- responses ----
SampleKeys == {"S_su", "X_c", "k_su", "bogus"}

WellFormedA == JList(<< JNum(Dec(5, -2)), JStr("kg/m3"), JStr("e1") >>)
WellFormedB == JList(<< JStr("2.5"), JStr("kg/m3"), JNull, JStr("extra") >>)
NonNumeric  == JList(<< JStr("x"), JStr("unit"), JStr("expl") >>)
NullFirst   == JList(<< JNull, JStr("unit"), JStr("expl") >>)
TooShort    == JList(<< JNum(Dec(1, 0)) >>)
TwoElements == JList(<< JNum(Dec(1, 0)), JStr("unit") >>)
NotAnArray  == JNum(Dec(7, 0))

SampleValues == { WellFormedA, WellFormedB, NonNumeric, NullFirst, TooShort,
                  TwoElements, NotAnArray }

SampleMembers == { Member(k, v) : k \in SampleKeys, v \in SampleValues }

SeqsUpTo(S, n) == UNION { [1 .. m -> S] : m \in 0 .. n }

\* json.dumps of an object, as tokens
RECURSIVE Encode(_, _)
Encode(members, i) ==
    IF i > Len(members) THEN << RBRACE >>
    ELSE (IF i = 1 THEN << members[i] >> ELSE << COMMA, members[i] >>)
         \o Encode(members, i + 1)

JsonText(members) == << LBRACE >> \o Encode(members, 1)

\* what surrounds the object: nothing, prose / a markdown fence, a stray
\* closing brace after it, a stray opening brace before it
Wrappers == { << << >>, << >> >>, << << PROSE >>, << PROSE >> >>,
              << << >>, << PROSE, RBRACE >> >>, << << LBRACE >>, << >> >> }

Truncated(text) == SubSeq(text, 1, Len(text) - 1)

RawTokens == { LBRACE, RBRACE, COMMA, PROSE, Member("S_su", WellFormedA) }

Texts ==
    SeqsUpTo(RawTokens, MaxRaw)
    \cup { w[1] \o JsonText(ms) \o w[2] :
             w \in Wrappers, ms \in SeqsUpTo(SampleMembers, MaxEntries) }
    \cup { Truncated(JsonText(ms)) : ms \in SeqsUpTo(SampleMembers, MaxEntries) }

\* ---- override maps ----
OverrideKeys == {"S_su", "S_h2", "X_I", "bogus"}
OverrideValues == { Zero, Dec(5, -2), Dec(3, 0) }
OverrideMaps ==
    UNION { [D -> OverrideValues] : D \in SUBSET OverrideKeys }

NotCalled == [outcome |-> "not called"]

\* no gas stream was handed to display_gas_stream
NoStream == [has_imass |-> FALSE]

\* a rerun in which "Get AI Recommendations" was not clicked
NotClicked == [clicked |-> FALSE, ingested |-> FALSE]

-----------------------------------------------------------------------------
(* Harness: one call of parse_ai_recommendations on any text.              *)

SessionInit ==
    /\ influent_values = EmptyMap
    /\ influent_explanations = EmptyMap
    /\ kinetic_params = EmptyMap
    /\ kinetic_explanations = EmptyMap
    /\ use_kinetics = FALSE
    /\ Q = 170
    /\ sim_params = << [Temp |-> 30815, HRT |-> 30, method |-> "BDF"],
                       [Temp |-> 30815, HRT |-> 45, method |-> "BDF"],
                       [Temp |-> 30815, HRT |-> 60, method |-> "BDF"] >>
    /\ sim_results = [i \in Slots |-> << >>]      \* [None, None, None]
    /\ simulation_time = 15000
    /\ t_step = 10
    /\ ai_recommendations = << >>                 \* None
    /\ pc = "start"
    /\ slot = 0
    /\ engine_calls = [i \in Slots |-> << >>]
    /\ returned = [i \in Slots |-> << >>]
    /\ notice = FALSE
    /\ nruns = 0
    /\ npass = 0
    /\ ai_call = NotClicked
    /\ feed_overrides = EmptyMap
    /\ kin_overrides = EmptyMap
    /\ page = [feed |-> 0, kin |-> 0]
    /\ edited = {}

InitParse ==
    /\ SessionInit
    /\ api_key = TRUE
    /\ stream = NoStream
    /\ gas_table = NotCalled
    /\ response_text \in Texts
    /\ include_kinetics \in BOOLEAN
    /\ parsed = NotCalled
    /\ concentrations = EmptyMap
    /\ resolved = NotCalled

CallParse ==
    /\ parsed = NotCalled
    /\ parsed' = parse_ai_recommendations(response_text, include_kinetics)
    /\ UNCHANGED << response_text, include_kinetics, resolveVars, gasVars, sessionVars >>

NextParse == CallParse

SpecParse == InitParse /\ [][NextParse]_vars

-----------------------------------------------------------------------------
(* Harness: one call of run_simulation or create_influent_stream on any    *)
(* override map.                                                           *)

InitResolve ==
    /\ SessionInit
    /\ api_key = TRUE
    /\ stream = NoStream
    /\ gas_table = NotCalled
    /\ response_text = << >>
    /\ include_kinetics = FALSE
    /\ parsed = NotCalled
    /\ concentrations \in OverrideMaps
    /\ resolved = NotCalled

CallRunSimulation ==
    /\ resolved = NotCalled
    /\ \E fault \in EngineFaults :
          resolved' = [outcome |-> "called", fn |-> "run_simulation", fault |-> fault,
                       nth |-> 1,
                       call |-> run_simulation(Q, sim_params[1].Temp, sim_params[1].HRT,
                                    concentrations, kinetic_params, simulation_time, t_step,
                                    sim_params[1].method, use_kinetics, fault,
                                    [run |-> 1, slot |-> 1])]
    /\ UNCHANGED << concentrations, parseVars, gasVars, sessionVars >>

CallCreateInfluentStream ==
    /\ resolved = NotCalled
    /\ \E fault \in InfluentFaults :
          resolved' = [outcome |-> "called", fn |-> "create_influent_stream", fault |-> fault,
                       nth |-> 1,
                       call |-> create_influent_stream(Q, sim_params[1].Temp,
                                    concentrations, fault)]
    /\ UNCHANGED << concentrations, parseVars, gasVars, sessionVars >>

\* a later call of either function, with another override map
LaterMaps ==
    { [X_I |-> Dec(3, 0)], [S_h2 |-> Zero], EmptyMap }

CallAgain ==
    /\ resolved # NotCalled
    /\ resolved.nth = 1
    /\ \E later \in LaterMaps \ {concentrations} :
          /\ concentrations' = later
          /\ \/ \E fault \in EngineFaults :
                   resolved' = [outcome |-> "called", fn |-> "run_simulation",
                                fault |-> fault, nth |-> 2,
                                call |-> run_simulation(Q, sim_params[1].Temp,
                                             sim_params[1].HRT, later, kinetic_params,
                                             simulation_time, t_step, sim_params[1].method,
                                             use_kinetics, fault, [run |-> 2, slot |-> 1])]
             \/ \E fault \in InfluentFaults :
                   resolved' = [outcome |-> "called", fn |-> "create_influent_stream",
                                fault |-> fault, nth |-> 2,
                                call |-> create_influent_stream(Q, sim_params[1].Temp,
                                             later, fault)]
    /\ UNCHANGED << parseVars, gasVars, sessionVars >>

NextResolve == CallRunSimulation \/ CallCreateInfluentStream \/ CallAgain

SpecResolve == InitResolve /\ [][NextResolve]_vars

-----------------------------------------------------------------------------
(* Properties of the resolution (checked under SpecResolve).               *)

\* C1: the concentration map handed to the engine by run_simulation and by
\* create_influent_stream has exactly the 26 registry names as keys; each
\* value is the override when the override map has the name (a value of 0
\* included) and the registry default otherwise; a key of the override map
\* that is no registry name is dropped, and is no error.
C1_ResolvedIsOverrideElseDefault ==
    (resolved.outcome = "called" /\ resolved.call.influent # << >>) =>
        LET handed == resolved.call.influent[1].concentrations
            table  == IF resolved.fn = "run_simulation"
                      THEN default_conc ELSE default_conc_inf
        IN  /\ DOMAIN handed = DOMAIN table
            /\ Cardinality(DOMAIN handed) = 26
            /\ \A n \in DOMAIN handed :
                   handed[n] = IF n \in DOMAIN concentrations
                               THEN concentrations[n] ELSE table[n]
            /\ \A k \in DOMAIN concentrations :
                   k \notin DOMAIN table => k \notin DOMAIN handed
            /\ resolved.fault = "none" =>
                   IF resolved.fn = "run_simulation"
                   THEN \A i \in 1 .. 4 : resolved.call.ret[i] # PyNone
                   ELSE resolved.call.ret # PyNone

\* an override of exactly 0, an unknown key and a name left to its default
C1_Witness ==
    /\ resolved.outcome = "called"
    /\ resolved.fault = "none"
    /\ "bogus" \in DOMAIN concentrations
    /\ "S_h2" \in DOMAIN concentrations
    /\ concentrations["S_h2"] = Zero
    /\ "X_I" \notin DOMAIN concentrations
    /\ resolved.call.influent[1].concentrations["S_h2"] = Zero
    /\ resolved.call.influent[1].concentrations["X_I"] = Dec(25, 0)

-----------------------------------------------------------------------------
(* Properties of the extraction (checked under SpecParse).                 *)

Called == parsed # NotCalled

HasReturned == Called /\ parsed.outcome = "return"

\* The text from the first opening brace to the last closing brace.
HasBracePair(text) ==
    \E i, j \in 1 .. Len(text) :
        i < j /\ text[i].t = "lbrace" /\ text[j].t = "rbrace"

Located(text) ==
    LET a == CHOOSE i \in 1 .. Len(text) :
                 text[i].t = "lbrace" /\ \A k \in 1 .. (i - 1) : text[k].t # "lbrace"
        b == CHOOSE j \in 1 .. Len(text) :
                 text[j].t = "rbrace" /\ \A k \in (j + 1) .. Len(text) : text[k].t # "rbrace"
    IN  SubSeq(text, a, b)

\* The grammar of a JSON object over the tokens.
IsObjectText(t) ==
    /\ Len(t) >= 2
    /\ t[1].t = "lbrace"
    /\ t[Len(t)].t = "rbrace"
    /\ \/ Len(t) = 2
       \/ /\ Len(t) % 2 = 1
          /\ \A k \in 2 .. (Len(t) - 1) :
                 t[k].t = IF k % 2 = 0 THEN "pair" ELSE "comma"

ObjectParsed ==
    HasBracePair(response_text) /\ IsObjectText(Located(response_text))

\* The entries of the parsed object (one per key).
ParsedObject == JsonLoads(Located(response_text)).data

Convertible(x) == x.j = "num" \/ (x.j = "str" /\ x.s = "2.5")

HasShape(v) == v.j = "list" /\ Len(v.items) >= 3

WellFormed(e) == HasShape(e.val) /\ Convertible(e.val.items[1])

NumberOf(x) == IF x.j = "num" THEN x.n ELSE Dec(25, -1)

Maps == parsed.ret

InNoMap(k) == \A i \in 1 .. 4 : k \notin DOMAIN Maps[i]

\* entry e is recorded, value and explanation, in the maps of its domain
Extracted(e) ==
    IF e.key \in feedstock_keys
    THEN /\ e.key \in DOMAIN Maps[1] /\ Maps[1][e.key] = NumberOf(e.val.items[1])
         /\ e.key \in DOMAIN Maps[2] /\ Maps[2][e.key] = e.val.items[3]
    ELSE IF include_kinetics /\ e.key \in kinetic_keys
    THEN /\ e.key \in DOMAIN Maps[3] /\ Maps[3][e.key] = NumberOf(e.val.items[1])
         /\ e.key \in DOMAIN Maps[4] /\ Maps[4][e.key] = e.val.items[3]
    ELSE TRUE

Known(e) ==
    e.key \in feedstock_keys \/ (include_kinetics /\ e.key \in kinetic_keys)

\* C2 (as claimed): an entry whose element 0 is not convertible to a float is
\* skipped alone: every well-formed sibling with a known key is extracted,
\* before or after it.
C2_NonNumericEntrySkippedAlone ==
    (HasReturned /\ ObjectParsed) =>
        \A i \in 1 .. Len(ParsedObject) :
            (HasShape(ParsedObject[i].val) /\ ~WellFormed(ParsedObject[i])) =>
                /\ InNoMap(ParsedObject[i].key)
                /\ \A j \in 1 .. Len(ParsedObject) :
                       (WellFormed(ParsedObject[j]) /\ Known(ParsedObject[j]))
                           => Extracted(ParsedObject[j])

\* C3: an entry that is no array, or an array of fewer than 3 elements, is in
\* none of the four maps, and it keeps no other entry from being extracted:
\* a well-formed entry with a known key is extracted whenever no entry before
\* it has the shape but a non-numeric element 0, and the four maps are those
\* of the same object without the entries of the wrong shape.
C3_ShortOrNonArraySkipped ==
    (HasReturned /\ ObjectParsed) =>
        /\ \A i \in 1 .. Len(ParsedObject) :
               /\ ~HasShape(ParsedObject[i].val) => InNoMap(ParsedObject[i].key)
               /\ ( /\ WellFormed(ParsedObject[i])
                    /\ Known(ParsedObject[i])
                    /\ \A j \in 1 .. (i - 1) :
                           HasShape(ParsedObject[j].val) => WellFormed(ParsedObject[j]) )
                  => Extracted(ParsedObject[i])
        /\ LET kept == SelectSeq(ParsedObject, LAMBDA e : HasShape(e.val))
               acc  == ParseLoop(kept, 1, NoMaps, include_kinetics)
           IN  Maps = << acc.fv, acc.fe, acc.kv, acc.ke >>

\* a too-short or non-array entry comes first, a well-formed one is extracted after it
C3_Witness ==
    /\ HasReturned /\ ObjectParsed
    /\ Len(ParsedObject) = 2
    /\ ParsedObject[1].val \in {TooShort, TwoElements, NotAnArray}
    /\ ParsedObject[2] = [key |-> "S_su", val |-> WellFormedA]
    /\ DOMAIN Maps[1] = {"S_su"}

\* C4: for every text and either value of include_kinetics the call returns
\* (it does not raise), and it returns four maps, none of them None.
C4_ParseIsTotal ==
    Called =>
        /\ parsed.outcome = "return"
        /\ Len(parsed.ret) = 4
        /\ \A i \in 1 .. 4 : parsed.ret[i] # PyNone

\* float(None) raised a TypeError inside the loop, and the call still returned
C4_Witness ==
    /\ HasReturned /\ ObjectParsed
    /\ parsed.path = "except"
    /\ \E i \in 1 .. Len(ParsedObject) : ParsedObject[i].val = NullFirst

\* C5: without a brace pair, or when the located substring is no JSON object,
\* all four maps are empty.
C5_NoJsonGivesEmptyMaps ==
    (Called /\ ~ObjectParsed) =>
        /\ parsed.outcome = "return"
        /\ \A i \in 1 .. 4 : DOMAIN parsed.ret[i] = {}

\* a well-formed object followed by prose and a stray closing brace
C5_Witness ==
    /\ HasReturned
    /\ response_text = << LBRACE, Member("S_su", WellFormedA), RBRACE, PROSE, RBRACE >>
    /\ parsed.path = "except"
    /\ DOMAIN Maps[1] = {}

\* C6 (as claimed): with include_kinetics false the kinetic maps are empty and
\* every well-formed feedstock entry of the response is recorded.
C6_GatingKeepsFeedstock ==
    (HasReturned /\ ~include_kinetics) =>
        /\ DOMAIN Maps[3] = {} /\ DOMAIN Maps[4] = {}
        /\ ObjectParsed =>
               \A i \in 1 .. Len(ParsedObject) :
                   (WellFormed(ParsedObject[i]) /\ ParsedObject[i].key \in feedstock_keys)
                       => Extracted(ParsedObject[i])

\* C7: the feedstock maps hold feedstock keys only, the kinetic maps kinetic
\* keys only, no key is in both domains, and a well-formed entry whose key is
\* in neither set is in no map.
C7_KeysAreClassified ==
    /\ Cardinality(feedstock_keys) = 26
    /\ feedstock_keys \cap kinetic_keys = {}
    /\ HasReturned =>
        /\ DOMAIN Maps[1] \subseteq feedstock_keys
        /\ DOMAIN Maps[2] \subseteq feedstock_keys
        /\ DOMAIN Maps[3] \subseteq kinetic_keys
        /\ DOMAIN Maps[4] \subseteq kinetic_keys
        /\ (DOMAIN Maps[1] \cup DOMAIN Maps[2]) \cap (DOMAIN Maps[3] \cup DOMAIN Maps[4]) = {}
        /\ ObjectParsed =>
               \A i \in 1 .. Len(ParsedObject) :
                   ParsedObject[i].key \notin (feedstock_keys \cup kinetic_keys)
                       => InNoMap(ParsedObject[i].key)

\* a well-formed entry of unknown key is dropped next to a recorded kinetic one
C7_Witness ==
    /\ HasReturned /\ ObjectParsed /\ include_kinetics
    /\ parsed.path = "normal"
    /\ Len(ParsedObject) = 2
    /\ ParsedObject[1] = [key |-> "bogus", val |-> WellFormedA]
    /\ ParsedObject[2] = [key |-> "k_su", val |-> WellFormedB]
    /\ DOMAIN Maps[3] = {"k_su"}
    /\ DOMAIN Maps[1] = {}

\* C8: on every return path the values and the explanations have the same
\* keys, in the feedstock maps and in the kinetic maps.
C8_ValuesMatchExplanations ==
    HasReturned =>
        /\ DOMAIN Maps[1] = DOMAIN Maps[2]
        /\ DOMAIN Maps[3] = DOMAIN Maps[4]

\* the return after an exception, with an entry recorded before it
C8_Witness ==
    /\ HasReturned /\ ObjectParsed
    /\ parsed.path = "except"
    /\ DOMAIN Maps[1] = {"S_su"}
    /\ DOMAIN Maps[2] = {"S_su"}
    /\ Maps[2]["S_su"] = JNull

-----------------------------------------------------------------------------
(* The script of main.py.  Streamlit runs main() from top to bottom once   *)
(* when the page loads and once after every interaction with a widget.  An *)
(* interaction that arrives while the script runs stops it at its next     *)
(* st.* call (the stop is no Exception, so no except clause catches it),   *)
(* and the script starts again for that interaction.                       *)

\* the default table of the manual feedstock panel
feedstock_defaultsMutantDrift == [default_conc EXCEPT !["S_I"] = Dec(2, -1)]

feedstock_defaults ==
    [ S_su  |-> Dec(1, -2),  S_aa  |-> Dec(1, -3),  S_fa  |-> Dec(1, -3),
      S_va  |-> Dec(1, -3),  S_bu  |-> Dec(1, -3),  S_pro |-> Dec(1, -3),
      S_ac  |-> Dec(1, -3),  S_h2  |-> Dec(1, -8),  S_ch4 |-> Dec(1, -5),
      S_IC  |-> TimesMw(Dec(4, -2), "C_mw"),
      S_IN  |-> TimesMw(Dec(1, -2), "N_mw"),
      S_I   |-> Dec(2, -2),  X_c   |-> Dec(2, 0),   X_ch  |-> Dec(5, 0),
      X_pr  |-> Dec(2, 1),   X_li  |-> Dec(5, 0),   X_su  |-> Dec(1, -2),
      X_aa  |-> Dec(1, -2),  X_fa  |-> Dec(1, -2),  X_c4  |-> Dec(1, -2),
      X_pro |-> Dec(1, -2),  X_ac  |-> Dec(1, -2),  X_h2  |-> Dec(1, -2),
      X_I   |-> Dec(25, 0),  S_cat |-> Dec(4, -2),  S_an  |-> Dec(2, -2) ]

sol_keys == { "S_su", "S_aa", "S_fa", "S_va", "S_bu", "S_pro", "S_ac", "S_h2",
              "S_ch4", "S_IC", "S_IN", "S_I", "S_cat", "S_an" }

part_keys == { "X_c", "X_ch", "X_pr", "X_li", "X_su", "X_aa", "X_fa", "X_c4",
               "X_pro", "X_ac", "X_h2", "X_I" }

\* the default table of the manual kinetic panel
kinetic_defaults ==
    [ q_dis |-> Dec(5, -1), q_ch_hyd |-> Dec(1, 1), q_pr_hyd |-> Dec(1, 1),
      q_li_hyd |-> Dec(1, 1), k_su |-> Dec(3, 1), k_aa |-> Dec(5, 1),
      k_fa |-> Dec(6, 0), k_c4 |-> Dec(2, 1), k_pro |-> Dec(13, 0),
      k_ac |-> Dec(8, 0), k_h2 |-> Dec(35, 0), b_su |-> Dec(2, -2),
      b_aa |-> Dec(2, -2), b_fa |-> Dec(2, -2), b_c4 |-> Dec(2, -2),
      b_pro |-> Dec(2, -2), b_ac |-> Dec(2, -2), b_h2 |-> Dec(2, -2),
      K_su |-> Dec(5, -1), K_aa |-> Dec(3, -1), K_fa |-> Dec(4, -1),
      K_c4 |-> Dec(2, -1), K_pro |-> Dec(1, -1), K_ac |-> Dec(15, -2),
      K_h2 |-> Dec(7, -6), KI_h2_fa |-> Dec(5, -6), KI_h2_c4 |-> Dec(1, -5),
      KI_h2_pro |-> Dec(35, -7), KI_nh3 |-> Dec(18, -4), KS_IN |-> Dec(1, -4),
      Y_su |-> Dec(1, -1), Y_aa |-> Dec(8, -2), Y_fa |-> Dec(6, -2),
      Y_c4 |-> Dec(6, -2), Y_pro |-> Dec(4, -2), Y_ac |-> Dec(5, -2),
      Y_h2 |-> Dec(6, -2), f_bu_su |-> Dec(13, -2), f_pro_su |-> Dec(27, -2),
      f_ac_su |-> Dec(41, -2), f_va_aa |-> Dec(23, -2), f_bu_aa |-> Dec(26, -2),
      f_pro_aa |-> Dec(5, -2), f_ac_aa |-> Dec(4, -1), f_ac_fa |-> Dec(7, -1),
      f_pro_va |-> Dec(54, -2), f_ac_va |-> Dec(31, -2), f_ac_bu |-> Dec(8, -1),
      f_ac_pro |-> Dec(57, -2) ]

\* Manual Feedstock Parameter Input: every widget stores its value.  A widget
\* the user has just edited returns the edit; any other returns its `value`
\* argument, feedstock_defaults.get(key, 0.0) after the stored values were
\* copied over the defaults.
FeedstockPanelMutantDefaults(iv, edit) ==
    LET widget(key) == IF key \in DOMAIN edit THEN edit[key]
                       ELSE feedstock_defaults[key]
    IN  Update(iv, [key \in sol_keys \cup part_keys |-> widget(key)])

FeedstockPanel(iv, edit) ==
    LET shown == Update(feedstock_defaults, iv)
        widget(key) == IF key \in DOMAIN edit THEN edit[key]
                       ELSE IF key \in DOMAIN shown THEN shown[key] ELSE Zero
    IN  Update(iv, [key \in sol_keys \cup part_keys |-> widget(key)])

\* Manual Kinetic Parameter Input, run only if st.session_state.use_kinetics
KineticPanel(kp, edit, use_kin) ==
    IF ~use_kin THEN kp
    ELSE LET shown == Update(kinetic_defaults, kp)
             widget(p) == IF p \in DOMAIN edit THEN edit[p] ELSE shown[p]
         IN  Update(kp, [p \in DOMAIN shown |-> widget(p)])

\* st.session_state.sim_results[i] = (sys_i, inf_i, eff_i, gas_i)
StoreResult(results, i, ret) == [results EXCEPT ![i] = ret]

\* the call of the loop body: run_simulation(Q=..., Temp=..., HRT=..., ...)
RunSlotCallMutantFirstSlot(i, fault) ==
    run_simulation(Q, sim_params[1].Temp, sim_params[1].HRT, influent_values,
                   kinetic_params, simulation_time, t_step, sim_params[1].method,
                   use_kinetics, fault, [run |-> nruns, slot |-> i])

RunSlotCall(i, fault) ==
    run_simulation(Q, sim_params[i].Temp, sim_params[i].HRT, influent_values,
                   kinetic_params, simulation_time, t_step, sim_params[i].method,
                   use_kinetics, fault, [run |-> nruns, slot |-> i])

\* setup_gemini_model(): None without the key or when the constructor raises
setup_gemini_model(key, service) ==
    IF ~key THEN PyNone
    ELSE IF service.kind = "setup_error" THEN PyNone
    ELSE [kind |-> "model"]

\* get_ai_recommendations(): the text of the one generate_content request, or
\* None (<< >>, like the empty text) when there is no model or the request
\* raises; requests counts the calls of model.generate_content, failed tells
\* that the request raised
get_ai_recommendationsMutantRetry(key, service) ==
    IF setup_gemini_model(key, service) = PyNone
    THEN [ret |-> << >>, requests |-> 0, failed |-> FALSE]
    ELSE IF service.kind = "request_error"
    THEN [ret |-> << >>, requests |-> 2, failed |-> TRUE]
    ELSE [ret |-> service.text, requests |-> 1, failed |-> FALSE]

get_ai_recommendations(key, service) ==
    IF setup_gemini_model(key, service) = PyNone
    THEN [ret |-> << >>, requests |-> 0, failed |-> FALSE]
    ELSE IF service.kind = "request_error"
    THEN [ret |-> << >>, requests |-> 1, failed |-> TRUE]
    ELSE [ret |-> service.text, requests |-> 1, failed |-> FALSE]

\* if new: d.update(new)   (for the kinetic maps: if use_kinetics and new)
IngestMutantReplace(d, new, gate) == IF gate THEN new ELSE d

IngestMutantKeepExisting(d, new, gate) ==
    IF gate /\ Truthy(new) THEN Update(new, d) ELSE d

Ingest(d, new, gate) == IF gate /\ Truthy(new) THEN Update(d, new) ELSE d

\* ---- what the user and the AI service can do, bounded ----
FeedEdits == { [k \in {"S_su"} |-> Dec(5, -2)], [k \in {"S_h2"} |-> Zero] }
KineticEdits == { [k \in {"k_aa"} |-> Dec(31, 0)] }
NoEdit == EmptyMap
FlowEdits == {100}
TempEdits == {31315}
HrtEdits == {20}
MethodEdits == {"RK45"}
HorizonEdits == {10000}
StepEdits == {50}
SessionFaults == {"none", "simulate"}
SessionResponses ==
    { << PROSE >>,
      JsonText(<< Member("S_su", WellFormedB), Member("k_su", WellFormedA) >>),
      JsonText(<< Member("bogus", WellFormedA), Member("S_su", WellFormedA),
                  Member("X_c", NonNumeric) >>) }

\* how the AI service behaves at one click: the constructor raises, the
\* request raises, or the request returns a text (possibly empty)
ServiceOutcomes ==
    { [kind |-> "setup_error", text |-> << >>],
      [kind |-> "request_error", text |-> << >>] }
    \cup { [kind |-> "text", text |-> t] : t \in SessionResponses \cup { << >> } }

\* the order in which the feedstock panel creates its widgets: sol_keys, then
\* part_keys (main.py:258, 273)
feed_order ==
    << "S_su", "S_aa", "S_fa", "S_va", "S_bu", "S_pro", "S_ac", "S_h2",
       "S_ch4", "S_IC", "S_IN", "S_I", "S_cat", "S_an",
       "X_c", "X_ch", "X_pr", "X_li", "X_su", "X_aa", "X_fa", "X_c4",
       "X_pro", "X_ac", "X_h2", "X_I" >>

\* param_list = sorted(list(kinetic_defaults.keys()))
param_list ==
    << "KI_h2_c4", "KI_h2_fa", "KI_h2_pro", "KI_nh3", "KS_IN", "K_aa", "K_ac",
       "K_c4", "K_fa", "K_h2", "K_pro", "K_su", "Y_aa", "Y_ac", "Y_c4", "Y_fa",
       "Y_h2", "Y_pro", "Y_su", "b_aa", "b_ac", "b_c4", "b_fa", "b_h2", "b_pro",
       "b_su", "f_ac_aa", "f_ac_bu", "f_ac_fa", "f_ac_pro", "f_ac_su", "f_ac_va",
       "f_bu_aa", "f_bu_su", "f_pro_aa", "f_pro_su", "f_pro_va", "f_va_aa",
       "k_aa", "k_ac", "k_c4", "k_fa", "k_h2", "k_pro", "k_su", "q_ch_hyd",
       "q_dis", "q_li_hyd", "q_pr_hyd" >>

\* Where a rerun of the script ends.  The script runs to its end unless a
\* widget event arrives meanwhile: then it stops at its next st.* call.  Below
\* the Run All block that call is one of the 26 number_inputs of the feedstock
\* panel, one of the 49 of the kinetic panel (drawn in kinetics mode only), or
\* a call before, between or after them.  A stop leaves the first `feed`
\* widgets of the feedstock panel and the first `kin` of the kinetic panel
\* created and their values stored; `done` tells that the script ran to its
\* end.
ToTheEnd(use_kin) ==
    [feed |-> Len(feed_order), kin |-> IF use_kin THEN Len(param_list) ELSE 0,
     done |-> TRUE]

StopPoints(use_kin) ==
    { [feed |-> n, kin |-> 0, done |-> FALSE] : n \in 0 .. Len(feed_order) }
    \cup (IF use_kin
          THEN { [feed |-> Len(feed_order), kin |-> m, done |-> FALSE] :
                    m \in 1 .. Len(param_list) }
          ELSE {})
    \cup { ToTheEnd(use_kin) }

\* the map after the first n widgets of a panel have stored their values
StoredUpTo(before, after, order, n) ==
    LET done == { order[j] : j \in 1 .. n } \cap DOMAIN after
    IN  [k \in DOMAIN before \cup done |->
            IF k \in done THEN after[k] ELSE before[k]]

\* the widget of every edited name is created before the script stops
Reaches(stop, order, edit, n) ==
    \A k \in DOMAIN edit : \E j \in 1 .. n : order[j] = k

\* the part of the script after the sidebar: both manual panels
MainContent(iv, kp, feedEdit, kinEdit, use_kin, stop) ==
    /\ influent_values' =
           StoredUpTo(iv, FeedstockPanel(iv, feedEdit), feed_order, stop.feed)
    /\ kinetic_params' =
           StoredUpTo(kp, KineticPanel(kp, kinEdit, use_kin), param_list, stop.kin)

\* the parts of the script, in the order of the code
ScriptOrder == << "radio", "assistant", "main", "running", "panels" >>

Above(at) ==
    { ScriptOrder[j] : j \in { n \in DOMAIN ScriptOrder :
                                  \E m \in DOMAIN ScriptOrder :
                                     ScriptOrder[m] = at /\ n < m } }

\* The script gets to the widget of part `at` and the widget reports an
\* event: the event that started this rerun, or one more event that the
\* rerun serves (the widget states of queued reruns are merged).  A changed
\* value of the sidebar served with an earlier event gives what two reruns
\* give, the first stopped before the panels: the widgets of part "main"
\* start their rerun.
Interaction(at) ==
    /\ pc = "idle" \/ pc \in Above(at)
    /\ IF pc = "idle"
       THEN npass < MaxPasses /\ npass' = npass + 1
       ELSE npass' = npass

RunUntouched ==
    UNCHANGED << sim_results, slot, engine_calls, returned, nruns >>

\* no engine call was recorded
NoCalls == [i \in Slots |-> << >>]

\* above the Run All button of a rerun: the notice of the rerun before is gone
NewRerun ==
    /\ notice' = FALSE
    /\ RunUntouched

\* the click of "Get AI Recommendations" is known for the rerun it is served in
SameCall == ai_call' = IF pc = "idle" THEN NotClicked ELSE ai_call

\* A script is stopped only by a widget event, and that event starts the next
\* rerun: it is one of the MaxPasses interactions of the session.
Interrupted == npass < MaxPasses

\* the number of sidebar values that differ from those of a new session
SidebarChanges(q, sp, horizon, step) ==
    (IF q = 170 THEN 0 ELSE 1)
    + Cardinality({ i \in Slots : sp[i].Temp # 30815 })
    + Cardinality({ i \in Slots : sp[i].HRT # << 30, 45, 60 >>[i] })
    + Cardinality({ i \in Slots : sp[i].method # "BDF" })
    + (IF horizon = 15000 THEN 0 ELSE 1)
    + (IF step = 10 THEN 0 ELSE 1)

\* the first run of the script, when the page loads: session state and sidebar
PageLoad ==
    /\ pc = "start"
    /\ pc' = "panels"
    /\ notice' = FALSE
    /\ use_kinetics' = FALSE        \* index=0 of the radio
    /\ RunUntouched
    /\ ai_call' = NotClicked
    /\ UNCHANGED << feed_overrides, kin_overrides >>
    /\ UNCHANGED << influent_values, kinetic_params,
                    influent_explanations, kinetic_explanations, Q, sim_params,
                    simulation_time, t_step,
                    ai_recommendations, npass, parseVars, resolveVars, gasVars,
                    api_key, page, edited >>

\* the number_input of every edited name is on the page: it is one of the
\* first `shown` widgets of its panel, which an earlier rerun created (a name
\* that only an ingestion stored, or a kinetic name while no kinetic panel is
\* drawn, has no widget the user could change)
OnPage(shown, order, edit) ==
    \A k \in DOMAIN edit : \E j \in 1 .. shown : order[j] = k

\* The widgets on the page after a rerun.  A script that ran to its end
\* leaves those it created.  While a script runs, and after one that was
\* stopped, the page also keeps the widgets of the rerun before that the
\* script has not replaced: Streamlit removes them when a script ends.
Drawn(pg, stop) ==
    IF stop.done THEN [feed |-> stop.feed, kin |-> stop.kin]
    ELSE [feed |-> IF stop.feed > pg.feed THEN stop.feed ELSE pg.feed,
          kin  |-> IF stop.kin > pg.kin THEN stop.kin ELSE pg.kin]

\* the script after the sidebar and the Run All block: the two panels, as far
\* as the rerun gets.  A number_input the user has changed, with the event
\* that started this rerun or before, returns the new value when the script
\* creates it, and the line after it stores that value.
RunPanels ==
    /\ pc \in Above("panels") \ {"running"} \/ pc = "panels"
    /\ pc' = "idle"
    /\ \E feedEdit \in FeedEdits \cup {NoEdit} :
       \E kinEdit \in (IF use_kinetics THEN KineticEdits ELSE {}) \cup {NoEdit} :
       \E stop \in StopPoints(use_kinetics) :
          /\ stop.done \/ Interrupted
          /\ OnPage(page.feed, feed_order, feedEdit)
          /\ OnPage(page.kin, param_list, kinEdit)
          /\ Reaches(stop, feed_order, feedEdit, stop.feed)
          /\ Reaches(stop, param_list, kinEdit, stop.kin)
          /\ MainContent(influent_values, kinetic_params, feedEdit, kinEdit,
                         use_kinetics, stop)
          /\ feed_overrides' = Update(feed_overrides, feedEdit)
          /\ kin_overrides' = Update(kin_overrides, kinEdit)
          /\ page' = Drawn(page, stop)
          /\ edited' = edited \cup DOMAIN feedEdit \cup DOMAIN kinEdit
          /\ SidebarChanges(Q, sim_params, simulation_time, t_step)
                + Cardinality(edited') <= MaxChanges
    /\ RunUntouched
    /\ ai_call' = NotClicked        \* the AI block is behind, its locals are not read again
    /\ UNCHANGED notice
    /\ UNCHANGED << influent_explanations, kinetic_explanations, use_kinetics,
                    Q, sim_params, simulation_time, t_step,
                    ai_recommendations, npass, parseVars, resolveVars, gasVars,
                    api_key >>

\* the radio "AI Assistant Mode"
SelectMode ==
    /\ Interaction("radio")
    /\ use_kinetics' = ~use_kinetics
    /\ pc' = "radio"
    /\ NewRerun
    /\ SameCall
    /\ UNCHANGED << feed_overrides, kin_overrides >>
    /\ UNCHANGED << influent_values, kinetic_params,
                    influent_explanations, kinetic_explanations, Q, sim_params,
                    simulation_time, t_step,
                    ai_recommendations, parseVars, resolveVars, gasVars,
                    api_key, page, edited >>

\* the button "Get AI Recommendations": get_ai_recommendations sets up the
\* model; without a model nothing is asked and the script goes on, with one
\* the script waits for the answer of model.generate_content
ClickAI ==
    /\ Interaction("assistant")
    /\ \E service \in ServiceOutcomes :
         IF setup_gemini_model(api_key, service) = PyNone
         THEN /\ pc' = "assistant"
              /\ ai_call' = [clicked |-> TRUE, requests |-> 0,
                             failed |-> FALSE, answered |-> FALSE, ingested |-> FALSE]
         ELSE /\ pc' = "request"
              /\ ai_call' = [clicked |-> TRUE, requests |-> 1,
                             failed |-> FALSE, answered |-> FALSE, ingested |-> FALSE]
    /\ NewRerun
    /\ UNCHANGED << feed_overrides, kin_overrides >>
    /\ UNCHANGED << influent_values, kinetic_params, influent_explanations,
                    kinetic_explanations, ai_recommendations,
                    use_kinetics, Q, sim_params, simulation_time, t_step,
                    parseVars, resolveVars, gasVars, api_key, page, edited >>

\* the request returns or raises: if the answer is truthy, the raw text is
\* stored, parsed and ingested (main.py:104-122); the script goes on
AnswerAI ==
    /\ pc = "request"
    /\ pc' = "assistant"
    /\ \E service \in { s \in ServiceOutcomes : s.kind # "setup_error" } :
         LET got      == get_ai_recommendations(api_key, service)
             response == got.ret
             ingest   == response # << >>
             r  == parse_ai_recommendations(response, use_kinetics)
             fv == r.ret[1]
             fe == r.ret[2]
             kv == r.ret[3]
             ke == r.ret[4]
         IN  /\ ai_call' = [clicked |-> TRUE, requests |-> got.requests,
                            failed |-> got.failed, answered |-> ingest,
                            ingested |-> ingest]
             /\ ai_recommendations' =
                    IF ingest THEN response ELSE ai_recommendations
             /\ influent_explanations' =
                    IF ingest THEN Ingest(influent_explanations, fe, TRUE)
                    ELSE influent_explanations
             /\ kinetic_explanations' =
                    IF ingest THEN Ingest(kinetic_explanations, ke, use_kinetics)
                    ELSE kinetic_explanations
             /\ feed_overrides' =
                    IF ingest THEN Ingest(feed_overrides, fv, TRUE)
                    ELSE feed_overrides
             /\ kin_overrides' =
                    IF ingest THEN Ingest(kin_overrides, kv, use_kinetics)
                    ELSE kin_overrides
             /\ influent_values' =
                    IF ingest THEN Ingest(influent_values, fv, TRUE)
                    ELSE influent_values
             /\ kinetic_params' =
                    IF ingest THEN Ingest(kinetic_params, kv, use_kinetics)
                    ELSE kinetic_params
    /\ RunUntouched
    /\ UNCHANGED << use_kinetics, Q, sim_params, simulation_time, t_step,
                    notice, npass, parseVars, resolveVars, gasVars, api_key, page, edited >>

\* a widget event arrived during the request and the parse of the answer
\* fails: the script stops at the st.error of parse_ai_recommendations'
\* except clause (app.py:380), so the call does not return and nothing is
\* ingested; the raw answer was stored before the call (main.py:105)
StopAtParseError ==
    /\ Interrupted
    /\ pc = "request"
    /\ pc' = "idle"
    /\ \E service \in { s \in ServiceOutcomes : s.kind = "text" } :
         LET got      == get_ai_recommendations(api_key, service)
             response == got.ret
         IN  /\ response # << >>
             /\ parse_ai_recommendations(response, use_kinetics).path = "except"
             /\ ai_recommendations' = response
             /\ ai_call' = [clicked |-> TRUE, requests |-> got.requests,
                            failed |-> got.failed, answered |-> TRUE,
                            ingested |-> FALSE]
    /\ RunUntouched
    /\ UNCHANGED << feed_overrides, kin_overrides >>
    /\ UNCHANGED << influent_values, kinetic_params, influent_explanations,
                    kinetic_explanations, use_kinetics, Q, sim_params,
                    simulation_time, t_step, notice, npass,
                    parseVars, resolveVars, gasVars, api_key, page, edited >>

\* the number_input "Influent Flow Rate"
EditFlow ==
    /\ pc = "idle"
    /\ Interaction("main")
    /\ \E q \in FlowEdits : q # Q /\ Q' = q
    /\ SidebarChanges(Q', sim_params, simulation_time, t_step)
          + Cardinality(edited) <= MaxChanges
    /\ pc' = "main"
    /\ NewRerun
    /\ SameCall
    /\ UNCHANGED << feed_overrides, kin_overrides >>
    /\ UNCHANGED << influent_values, kinetic_params,
                    influent_explanations, kinetic_explanations, use_kinetics,
                    sim_params, simulation_time, t_step, ai_recommendations,
                    parseVars, resolveVars, gasVars,
                    api_key, page, edited >>

\* the three widgets of one simulation: Temperature, HRT, Integration Method
EditSimParams ==
    /\ pc = "idle"
    /\ Interaction("main")
    /\ \E i \in Slots :
         \/ \E t \in TempEdits : sim_params' = [sim_params EXCEPT ![i].Temp = t]
         \/ \E h \in HrtEdits : sim_params' = [sim_params EXCEPT ![i].HRT = h]
         \/ \E m \in MethodEdits : sim_params' = [sim_params EXCEPT ![i].method = m]
    /\ sim_params' # sim_params
    /\ SidebarChanges(Q, sim_params', simulation_time, t_step)
          + Cardinality(edited) <= MaxChanges
    /\ pc' = "main"
    /\ NewRerun
    /\ SameCall
    /\ UNCHANGED << feed_overrides, kin_overrides >>
    /\ UNCHANGED << influent_values, kinetic_params,
                    influent_explanations, kinetic_explanations, use_kinetics, Q,
                    simulation_time, t_step, ai_recommendations, parseVars,
                    resolveVars, gasVars, api_key, page, edited >>

\* the sliders "Simulation Time (days)" and "Time Step (days)"
EditTime ==
    /\ pc = "idle"
    /\ Interaction("main")
    /\ \/ \E t \in HorizonEdits :
             simulation_time # t /\ simulation_time' = t /\ t_step' = t_step
       \/ \E d \in StepEdits :
             t_step # d /\ t_step' = d /\ simulation_time' = simulation_time
    /\ SidebarChanges(Q, sim_params, simulation_time', t_step')
          + Cardinality(edited) <= MaxChanges
    /\ pc' = "main"
    /\ NewRerun
    /\ SameCall
    /\ UNCHANGED << feed_overrides, kin_overrides >>
    /\ UNCHANGED << influent_values, kinetic_params,
                    influent_explanations, kinetic_explanations, use_kinetics, Q,
                    sim_params, ai_recommendations, parseVars, resolveVars, gasVars,
                    api_key, page, edited >>

\* a widget below the Run All block, or one that stores nothing, reruns the
\* script: a number_input of a manual panel (its value is stored when the
\* rerun gets to it, see RunPanels), the description text_area, the buttons
\* "Update Feedstock Parameters" and "Update Kinetic Parameters", the
\* selectbox "Select Plot Type", "Export Plot", "Export Data"
OtherWidget ==
    /\ pc = "idle"
    /\ Interaction("main")
    /\ pc' = "main"
    /\ NewRerun
    /\ SameCall
    /\ UNCHANGED << feed_overrides, kin_overrides >>
    /\ UNCHANGED << influent_values, kinetic_params,
                    influent_explanations, kinetic_explanations, use_kinetics, Q,
                    sim_params, simulation_time, t_step, ai_recommendations,
                    parseVars, resolveVars, gasVars, api_key, page, edited >>

\* the button "Run All Simulations": the script reaches the loop, in a rerun
\* the click starts or in one that serves the click with an earlier event
ClickRunAll ==
    /\ Interaction("running")
    /\ ai_call' = NotClicked        \* the AI block is behind, its locals are not read again
    /\ notice' = FALSE
    /\ nruns < MaxRuns
    /\ nruns' = nruns + 1
    /\ pc' = "running"
    /\ slot' = 1
    /\ engine_calls' = NoCalls
    /\ returned' = NoCalls
    /\ UNCHANGED << feed_overrides, kin_overrides >>
    /\ UNCHANGED << influent_values, influent_explanations, kinetic_params,
                    kinetic_explanations, use_kinetics, Q, sim_params,
                    simulation_time, t_step, sim_results, ai_recommendations,
                    parseVars, resolveVars, gasVars,
                    api_key, page, edited >>

\* for i in range(3): the turn that follows the turn of slot i, whatever the
\* run of slot i returned (run_simulation raises nothing)
AfterSlot(i, ret) == i + 1

\* run_simulation did not return: the stop of the script went through it
Stopped == << "RerunException" >>

\* what the engine was asked in one call of run_simulation
EngineRecord(r) ==
    << [ADM1 |-> r.ADM1, influent |-> r.influent,
        reactor |-> r.reactor, simulate |-> r.simulate] >>

\* the faults the engine can have in the next turn of the loop
TurnFaults ==
    IF Cardinality({ i \in Slots : returned[i] # << >> /\ returned[i][1].fault # "none" })
         < MaxFailures
    THEN SessionFaults ELSE {"none"}

\* one turn of  for i in range(3)
RunSlot ==
    /\ pc = "running"
    /\ slot \in Slots
    /\ \E fault \in TurnFaults :
         LET r == RunSlotCall(slot, fault)
         IN  /\ sim_results' = StoreResult(sim_results, slot, r.ret)
             /\ returned' = [returned EXCEPT ![slot] = << [fault |-> fault, ret |-> r.ret] >>]
             /\ engine_calls' = [engine_calls EXCEPT ![slot] = EngineRecord(r)]
             /\ slot' = AfterSlot(slot, r.ret)
    /\ UNCHANGED << ai_call, feed_overrides, kin_overrides >>
    /\ UNCHANGED << influent_values, influent_explanations, kinetic_params,
                    kinetic_explanations, use_kinetics, Q, sim_params,
                    simulation_time, t_step, ai_recommendations, pc, notice,
                    nruns, npass, parseVars, resolveVars, gasVars,
                    api_key, page, edited >>

\* a widget event arrived during the Run All: the script stops at its next
\* st.* call, the spinner of the next slot or the st.success after the loop
StopRunAll ==
    /\ Interrupted
    /\ pc = "running"
    /\ slot \in 1 .. 4
    /\ pc' = "idle"
    /\ slot' = 0
    /\ UNCHANGED << ai_call, feed_overrides, kin_overrides >>
    /\ UNCHANGED << influent_values, influent_explanations, kinetic_params,
                    kinetic_explanations, use_kinetics, Q, sim_params,
                    simulation_time, t_step, sim_results, ai_recommendations,
                    engine_calls, returned, notice, nruns, npass,
                    parseVars, resolveVars, gasVars, api_key, page, edited >>

\* the same when the run of the slot fails: the st.* call at which the script
\* stops is the st.error of run_simulation's except clause, so run_simulation
\* does not return and main.py:207 stores nothing for the slot
StopAtError ==
    /\ Interrupted
    /\ pc = "running"
    /\ slot \in Slots
    /\ \E fault \in TurnFaults \ {"none"} :
         /\ engine_calls' = [engine_calls EXCEPT ![slot] =
                                EngineRecord(RunSlotCall(slot, fault))]
         /\ returned' = [returned EXCEPT ![slot] =
                            << [fault |-> fault, ret |-> Stopped] >>]
    /\ pc' = "idle"
    /\ slot' = 0
    /\ UNCHANGED << ai_call, feed_overrides, kin_overrides >>
    /\ UNCHANGED << influent_values, influent_explanations, kinetic_params,
                    kinetic_explanations, use_kinetics, Q, sim_params,
                    simulation_time, t_step, sim_results, ai_recommendations,
                    notice, nruns, npass,
                    parseVars, resolveVars, gasVars, api_key, page, edited >>

\* after the loop: st.success, then the rest of the script
FinishRunAll ==
    /\ pc = "running"
    /\ slot = 4
    /\ notice' = TRUE
    /\ pc' = "panels"
    /\ slot' = 0
    /\ UNCHANGED << ai_call, feed_overrides, kin_overrides >>
    /\ UNCHANGED << influent_values, kinetic_params,
                    influent_explanations, kinetic_explanations, use_kinetics, Q,
                    sim_params, simulation_time, t_step, sim_results,
                    ai_recommendations, engine_calls,
                    returned, nruns, npass, parseVars, resolveVars, gasVars,
                    api_key, page, edited >>

Init ==
    /\ SessionInit
    /\ api_key \in BOOLEAN
    /\ stream = NoStream
    /\ gas_table = NotCalled
    /\ response_text = << >>
    /\ include_kinetics = FALSE
    /\ parsed = NotCalled
    /\ concentrations = EmptyMap
    /\ resolved = NotCalled

Next ==
    \/ PageLoad
    \/ RunPanels
    \/ SelectMode
    \/ ClickAI
    \/ AnswerAI
    \/ StopAtParseError
    \/ EditFlow
    \/ EditSimParams
    \/ EditTime
    \/ OtherWidget
    \/ ClickRunAll
    \/ RunSlot
    \/ StopRunAll
    \/ StopAtError
    \/ FinishRunAll

Spec == Init /\ [][Next]_vars

\* The script is sequential code: unless a widget event stops it, the loop
\* of a Run All takes its turns and the script runs on.
SpecFair == Spec /\ WF_vars(RunSlot) /\ WF_vars(FinishRunAll)

-----------------------------------------------------------------------------
(* Properties of Run All Simulations (checked under Spec).                 *)

NoResult == << PyNone, PyNone, PyNone, PyNone >>

HandlesOf(run, i) ==
    << Handle("sys", [run |-> run, slot |-> i]), Handle("inf", [run |-> run, slot |-> i]),
       Handle("eff", [run |-> run, slot |-> i]), Handle("gas", [run |-> run, slot |-> i]) >>

\* C9: in a Run All, a slot whose run failed holds four None afterwards,
\* whatever it held before, and a slot whose run succeeded holds the handles
\* of this run.
C9_FailedSlotStoresNoResult ==
    \A i \in Slots :
        returned[i] # << >> =>
            /\ returned[i][1].fault # "none" => sim_results[i] = NoResult
            /\ returned[i][1].fault = "none" => sim_results[i] = HandlesOf(nruns, i)

\* C10: inside a Run All, every reaction model is built from the stored
\* kinetic map when use_kinetics is true and from no override when it is
\* false; a model that gets overrides gets the whole stored map, which then
\* names every kinetic parameter.
C10_KineticsModeIsExclusive ==
    pc = "running" =>
        \A i \in Slots :
            engine_calls[i] # << >> =>
                LET kwargs == engine_calls[i][1].ADM1[1].kwargs IN
                /\ ~use_kinetics => kwargs = EmptyMap
                /\ use_kinetics => kwargs = kinetic_params
                /\ kwargs # EmptyMap => DOMAIN kwargs = kinetic_keys

-----------------------------------------------------------------------------
(* Properties of the AI assistance (checked under Spec).                   *)

\* the step is the click of "Get AI Recommendations"
ClickStep == pc \in {"idle", "radio"} /\ ~ai_call.clicked /\ ai_call'.clicked

\* the step is the return of the request, with the ingestion of its answer
AnswerStep == pc = "request" /\ pc' # "request"

\* the four maps an ingestion may write
MapsUnchanged ==
    /\ influent_values' = influent_values
    /\ kinetic_params' = kinetic_params
    /\ influent_explanations' = influent_explanations
    /\ kinetic_explanations' = kinetic_explanations

\* slot i was run with the parameters the session holds now
RanWithCurrent(i) ==
    /\ returned[i] # << >>
    /\ engine_calls[i] # << >>
    /\ LET now == RunSlotCall(i, returned[i][1].fault)
       IN  engine_calls[i][1] = [ADM1 |-> now.ADM1, influent |-> now.influent,
                                 reactor |-> now.reactor, simulate |-> now.simulate]

\* C15: without GEMINI_API_KEY a click of "Get AI Recommendations" sends no
\* request and the script goes on with the feedstock and kinetic values as
\* they were; the stored raw response and both explanation maps never
\* change; and every Run All of such a session executes all three slots with
\* the parameters the session holds: the loop is not left before.
C15_NoKeyNoRequestAndRunsStillWork ==
    /\ [][(~api_key /\ ClickStep) =>
              /\ ai_call'.requests = 0
              /\ pc' = "assistant"
              /\ MapsUnchanged
              /\ UNCHANGED << feed_overrides, kin_overrides >>]_vars
    /\ [][~api_key =>
              /\ ai_recommendations' = ai_recommendations
              /\ influent_explanations' = influent_explanations
              /\ kinetic_explanations' = kinetic_explanations]_vars
    /\ [](~api_key => pc # "request")
    /\ [][(~api_key /\ pc = "running" /\ pc' # "running") =>
              \A i \in Slots : RanWithCurrent(i)]_vars

\* C16: a click sends at most one request, and when that request fails the
\* feedstock and kinetic overrides, both explanation maps and the raw
\* response stored before are as they were.
C16_OneRequestAndFailureChangesNothing ==
    [][(ClickStep \/ AnswerStep) =>
           /\ ai_call'.requests \in {0, 1}
           /\ ai_call'.requests = 1 <=> (pc = "request" \/ pc' = "request")
           /\ ai_call'.failed =>
                  /\ AnswerStep
                  /\ ai_call'.requests = 1
                  /\ MapsUnchanged
                  /\ ai_recommendations' = ai_recommendations]_vars

\* a failed request after an ingestion that stored a value and a raw response
C16_Witness ==
    /\ ai_call = [clicked |-> TRUE, requests |-> 1, failed |-> TRUE,
                  answered |-> FALSE, ingested |-> FALSE]
    /\ ai_recommendations # << >>
    /\ "S_su" \in DOMAIN influent_explanations
    /\ "S_su" \in DOMAIN feed_overrides

\* the text holds no JSON object
NoJsonObject(text) == ~(HasBracePair(text) /\ IsObjectText(Located(text)))

\* nothing can be extracted from the text
NothingExtracted(text, incl) ==
    \A i \in 1 .. 4 : DOMAIN parse_ai_recommendations(text, incl).ret[i] = {}

\* C17: when the response holds no valid JSON object, or yields no entry,
\* the ingestion leaves every entry of the feedstock and kinetic overrides
\* and of both explanation maps as it was before the click.
C17_NothingExtractedChangesNothing ==
    [][(AnswerStep /\ ai_call'.answered
          /\ (NoJsonObject(ai_recommendations')
                \/ NothingExtracted(ai_recommendations', use_kinetics)))
           => MapsUnchanged]_vars

\* a prose answer after an ingestion: the maps keep the ingested entry
C17_Witness ==
    /\ ai_call.clicked /\ ai_call.ingested
    /\ NoJsonObject(ai_recommendations)
    /\ "S_su" \in DOMAIN influent_explanations
    /\ "S_su" \in DOMAIN feed_overrides
    /\ influent_values["S_su"] = feed_overrides["S_su"]

\* C18: an override stored by a manual edit or by an ingestion stays the
\* stored value through every later pass of the panels, and a Run All hands
\* it to the engine in every slot it runs: the feedstock override as the
\* concentration of its name, the kinetic override (in kinetics mode) as the
\* argument of the reaction model.
C18_RunUsesStoredOverrides ==
    /\ \A k \in DOMAIN feed_overrides :
           k \in DOMAIN influent_values /\ influent_values[k] = feed_overrides[k]
    /\ \A q \in DOMAIN kin_overrides :
           q \in DOMAIN kinetic_params /\ kinetic_params[q] = kin_overrides[q]
    /\ pc = "running" =>
           \A i \in Slots :
               engine_calls[i] # << >> =>
                   /\ engine_calls[i][1].influent # << >> =>
                          \A k \in DOMAIN feed_overrides :
                              engine_calls[i][1].influent[1].concentrations[k]
                                  = feed_overrides[k]
                   /\ use_kinetics =>
                          \A q \in DOMAIN kin_overrides :
                              engine_calls[i][1].ADM1[1].kwargs[q] = kin_overrides[q]

\* an ingestion of S_su = 2.5; the feedstock panel ran after it in the same
\* rerun (it stored an edit of S_h2, a widget below that of S_su); then a Run
\* All in the next rerun: all three slots get the ingested 2.5, which is
\* neither the default 0.01 nor the value 0.05 of a manual edit of S_su
C18_Witness ==
    /\ pc = "running" /\ slot = 4
    /\ npass = 2
    /\ ~ai_call.clicked
    /\ "S_su" \in DOMAIN influent_explanations
    /\ edited = {"S_h2"}
    /\ feed_overrides["S_h2"] = Zero
    /\ feed_overrides["S_su"] = Dec(25, -1)
    /\ feed_overrides["S_su"] # default_conc["S_su"]
    /\ \A i \in Slots :
           /\ engine_calls[i][1].influent # << >>
           /\ engine_calls[i][1].influent[1].concentrations["S_su"]
                  = feed_overrides["S_su"]

\* C19: whatever was clicked, edited, answered and run, the stored feedstock
\* map names only entries of the feedstock registry (26 names) and the stored
\* kinetic map only entries of the kinetic registry.
C19_StoredNamesAreRegistered ==
    /\ Cardinality(feedstock_keys) = 26
    /\ DOMAIN influent_values \subseteq feedstock_keys
    /\ DOMAIN kinetic_params \subseteq kinetic_keys
    /\ DOMAIN feed_overrides \subseteq feedstock_keys
    /\ DOMAIN kin_overrides \subseteq kinetic_keys

\* in kinetics mode, an answer with a well-formed entry of an unknown name
C19_Witness ==
    /\ use_kinetics
    /\ ai_call.clicked /\ ai_call.answered
    /\ \E i \in 1 .. Len(ai_recommendations) :
           /\ ai_recommendations[i].t = "pair"
           /\ ai_recommendations[i].key = "bogus"
           /\ ai_recommendations[i].val = WellFormedA
    /\ DOMAIN kinetic_params = kinetic_keys
    /\ "bogus" \notin DOMAIN influent_values
    /\ "bogus" \notin DOMAIN kinetic_params

-----------------------------------------------------------------------------
(* Properties of the run configuration (checked under Spec).               *)

\* what a Run All started now would hand to the engine for slot j
NextRun(j) ==
    LET r == RunSlotCall(j, "none")
    IN  [ADM1 |-> r.ADM1, influent |-> r.influent, reactor |-> r.reactor,
         simulate |-> r.simulate]

\* a rerun that leaves the flow, the feedstock and the kinetic values alone
CommonInputsKept ==
    /\ Q' = Q
    /\ influent_values' = influent_values
    /\ kinetic_params' = kinetic_params

\* C20 (as claimed): temperature, retention time, horizon, time step, method
\* and use_kinetics belong to one slot each, so a change of one of them
\* changes the next run of at most one slot.
C20_EachSlotOwnsWholeConfiguration ==
    [][CommonInputsKept =>
           \E i \in Slots :
               \A j \in Slots \ {i} : NextRun(j)' = NextRun(j)]_vars

\* C20 (amended): a slot has its own temperature, retention time and method:
\* a change of one of them changes the next run of that slot and of no
\* other; in a Run All every slot runs with its own three values, and with
\* the flow, the feedstock, the horizon, the time step and the kinetics mode
\* (with its kinetic values) of the session, the same for all three.
C20_SlotsOwnTemperatureHrtMethod ==
    /\ [][\A i \in Slots :
              sim_params'[i] # sim_params[i] =>
                  /\ NextRun(i)' # NextRun(i)
                  /\ \A j \in Slots \ {i} : NextRun(j)' = NextRun(j)]_vars
    /\ [](pc = "running" =>
             \A i \in Slots :
                 engine_calls[i] # << >> =>
                     LET c == engine_calls[i][1] IN
                     /\ c.ADM1[1].kwargs = AdmKwargs(kinetic_params, use_kinetics)
                     /\ c.influent # << >> =>
                            /\ c.influent[1].Q = Q
                            /\ c.influent[1].T = sim_params[i].Temp
                            /\ c.influent[1].concentrations
                                   = Overlay(default_conc, influent_values)
                     /\ c.reactor # << >> =>
                            /\ c.reactor[1].T = sim_params[i].Temp
                            /\ c.reactor[1].V_liq = FromInt(Q * sim_params[i].HRT)
                     /\ c.simulate # << >> =>
                            /\ c.simulate[1].method = sim_params[i].method
                            /\ c.simulate[1].t_span = << 0, simulation_time >>
                            /\ c.simulate[1].t_eval
                                   = SamplingGrid[simulation_time, t_step])

\* the temperature of slot 2 was changed, then Run All: only slot 2 runs at
\* the new temperature, all three run to the horizon of the session
C20_Witness ==
    /\ pc = "running" /\ slot = 4
    /\ sim_params[2].Temp = 31315
    /\ \A i \in Slots :
           /\ engine_calls[i][1].simulate # << >>
           /\ engine_calls[i][1].simulate[1].t_span = << 0, simulation_time >>
           /\ engine_calls[i][1].reactor[1].T = IF i = 2 THEN 31315 ELSE 30815

-----------------------------------------------------------------------------
(* display_gas_stream: the table of the biogas stream.                     *)

MW_CO2 == Hundredths(4401)
MW_C == Hundredths(1201)
DENSITY_CH4 == FDiv(FromInt(716), FromInt(1000))
DENSITY_CO2 == FDiv(FromInt(1977), FromInt(1000))
DENSITY_H2 == FDiv(FromInt(899), FromInt(10000))
COD_CH4 == FromInt(4)
COD_H2 == FromInt(8)

GasIds == { "S_ch4", "S_IC", "S_h2" }

\* f"{x:.2f}" of a float x >= 0, as the whole number of hundredths printed:
\* the exact value is rounded to two decimals, ties to even
Format2f(x) ==
    IF x.m = << >> THEN 0
    ELSE LET p == MulBits(x.m, BitsOf(100))
             k == -x.e
         IN  IF k <= 0 THEN IntOf(Shl(p, -k))
             ELSE LET whole == IF Len(p) > k THEN SubSeq(p, 1, Len(p) - k)
                               ELSE << >>
                      frac  == IF Len(p) >= k THEN SubSeq(p, Len(p) - k + 1, Len(p))
                               ELSE Zeros(k - Len(p)) \o p
                      more  == \E j \in 2 .. k : frac[j] = 1
                      odd   == whole # << >> /\ whole[Len(whole)] = 1
                      up    == frac[1] = 1 /\ (more \/ odd)
                  IN  IntOf(whole) + (IF up THEN 1 ELSE 0)

\* (flow / flow_vol_total * scale) if flow_vol_total > 0 else 0; a float
\* division by zero raises ZeroDivisionError
ShareMutantUnguarded(flow, total, scale) ==
    IF total.m = << >> THEN [raised |-> TRUE, val |-> FromInt(0)]
    ELSE [raised |-> FALSE, val |-> FMul(FDiv(flow, total), scale)]

Share(flow, total, scale) ==
    IF total.m # << >>
    THEN [raised |-> FALSE, val |-> FMul(FDiv(flow, total), scale)]
    ELSE [raised |-> FALSE, val |-> FromInt(0)]

\* the body of the try block and the except branch; a read of stream.imass
\* that raises, like any other exception, ends in the except branch
display_gas_stream(st) ==
    LET read(id) == FMul(FromInt(st.imass[id].kg), FromInt(24))
        methane_flow == IF st.has_imass
                        THEN FDiv(FDiv(read("S_ch4"), COD_CH4), DENSITY_CH4)
                        ELSE FromInt(0)
        co2_flow == IF st.has_imass
                    THEN FDiv(FMul(read("S_IC"), FDiv(MW_CO2, MW_C)), DENSITY_CO2)
                    ELSE FromInt(0)
        h2_flow == IF st.has_imass
                   THEN FDiv(FDiv(read("S_h2"), COD_H2), DENSITY_H2)
                   ELSE FromInt(0)
        flow_vol_total == FAdd(FAdd(methane_flow, co2_flow), h2_flow)
        methane_pct == Share(methane_flow, flow_vol_total, FromInt(100))
        co2_pct == Share(co2_flow, flow_vol_total, FromInt(100))
        h2_ppmv == Share(h2_flow, flow_vol_total, FromInt(1000000))
        raised == \/ st.has_imass /\ \E id \in GasIds : ~st.imass[id].ok
                  \/ methane_pct.raised \/ co2_pct.raised \/ h2_ppmv.raised
    IN  IF raised
        THEN [outcome |-> "shown", error |-> TRUE,
              Flow |-> 0, Methane |-> 0, CO2 |-> 0, H2 |-> 0]
        ELSE [outcome |-> "shown", error |-> FALSE,
              Flow |-> Format2f(flow_vol_total),
              Methane |-> Format2f(methane_pct.val),
              CO2 |-> Format2f(co2_pct.val),
              H2 |-> Format2f(h2_ppmv.val)]

-----------------------------------------------------------------------------
(* Harness: one call of display_gas_stream on any stream.                  *)

GasMasses == { 0, 2, 5 }        \* kg/hr read from stream.imass

GasReads == { [ok |-> TRUE, kg |-> m] : m \in GasMasses }
                \cup { [ok |-> FALSE, kg |-> 0] }

InitGas ==
    /\ SessionInit
    /\ api_key = TRUE
    /\ \E h \in BOOLEAN, im \in [GasIds -> GasReads] :
         stream = [has_imass |-> h, imass |-> im]
    /\ gas_table = NotCalled
    /\ response_text = << >>
    /\ include_kinetics = FALSE
    /\ parsed = NotCalled
    /\ concentrations = EmptyMap
    /\ resolved = NotCalled

ShowGas ==
    /\ gas_table = NotCalled
    /\ gas_table' = display_gas_stream(stream)
    /\ UNCHANGED << stream, parseVars, resolveVars, sessionVars >>

NextGas == ShowGas

SpecGas == InitGas /\ [][NextGas]_vars

-----------------------------------------------------------------------------
(* Properties of the gas table (checked under SpecGas).                    *)

ZeroFlows == stream.has_imass => \A id \in GasIds : stream.imass[id].kg = 0

ReadRaises == stream.has_imass /\ \E id \in GasIds : ~stream.imass[id].ok

\* C12: when the methane, CO2 and hydrogen flows are all zero, the table
\* shows 0.00 for methane %, CO2 % and hydrogen ppmv and nothing raised (no
\* division by zero: a ZeroDivisionError would end in the error branch); when
\* a read of the stream raises, the same zeros and a total flow of 0.00 are
\* shown.
C12_ZeroGasFlowShowsZeros ==
    gas_table # NotCalled =>
        /\ (ZeroFlows /\ ~ReadRaises) =>
               /\ ~gas_table.error
               /\ gas_table.Flow = 0
               /\ gas_table.Methane = 0 /\ gas_table.CO2 = 0 /\ gas_table.H2 = 0
        /\ ReadRaises =>
               /\ gas_table.Flow = 0
               /\ gas_table.Methane = 0 /\ gas_table.CO2 = 0 /\ gas_table.H2 = 0

C12_Witness ==
    /\ gas_table # NotCalled
    /\ stream.has_imass
    /\ \A id \in GasIds : stream.imass[id] = [ok |-> TRUE, kg |-> 0]
    /\ gas_table.Methane = 0 /\ gas_table.CO2 = 0 /\ gas_table.H2 = 0
    /\ ~gas_table.error

-----------------------------------------------------------------------------
(* Harness: the call of the loop body for one slot, in a session of any    *)
(* flow, retention times, horizon and time step.                           *)

HrtTriples == { << 30, 45, 60 >>, << 20, 1, 45 >>, << 60, 60, 1 >> }

InitNumeric ==
    /\ influent_values = EmptyMap
    /\ influent_explanations = EmptyMap
    /\ kinetic_params = EmptyMap
    /\ kinetic_explanations = EmptyMap
    /\ use_kinetics = FALSE
    /\ Q \in FlowValues
    /\ \E h \in HrtTriples :
          sim_params = [i \in Slots |-> [Temp |-> 30815, HRT |-> h[i], method |-> "BDF"]]
    /\ sim_results = [i \in Slots |-> << >>]
    /\ simulation_time \in HorizonValues
    /\ t_step \in StepValues
    /\ ai_recommendations = << >>
    /\ pc = "start"
    /\ slot = 0
    /\ engine_calls = [i \in Slots |-> << >>]
    /\ returned = [i \in Slots |-> << >>]
    /\ notice = FALSE
    /\ nruns = 1
    /\ npass = 0
    /\ api_key = TRUE
    /\ ai_call = NotClicked
    /\ feed_overrides = EmptyMap
    /\ kin_overrides = EmptyMap
    /\ page = [feed |-> 0, kin |-> 0]
    /\ edited = {}
    /\ stream = NoStream
    /\ gas_table = NotCalled
    /\ response_text = << >>
    /\ include_kinetics = FALSE
    /\ parsed = NotCalled
    /\ concentrations = EmptyMap
    /\ resolved = NotCalled

\* One turn of the loop for any slot.  When the run fails, run_simulation
\* reports it with st.error before it returns four None: if a widget event
\* has arrived, the script stops there (`stopped`), run_simulation does not
\* return and main.py:207 stores nothing for the slot.
CallSlot ==
    /\ resolved = NotCalled
    /\ \E i \in Slots, fault \in EngineFaults, stopped \in BOOLEAN :
          /\ stopped => fault # "none"
          /\ resolved' = [outcome |-> "called", fn |-> "run_simulation",
                          fault |-> fault, slot |-> i, stopped |-> stopped,
                          call |-> RunSlotCall(i, fault)]
          /\ sim_results' = IF stopped THEN sim_results
                            ELSE StoreResult(sim_results, i, RunSlotCall(i, fault).ret)
    /\ UNCHANGED << influent_values, influent_explanations, kinetic_params,
                    kinetic_explanations, use_kinetics, Q, sim_params,
                    simulation_time, t_step, ai_recommendations, pc, slot,
                    engine_calls, returned, notice, nruns, npass,
                    api_key, ai_call, feed_overrides, kin_overrides, page,
                    edited >>
    /\ UNCHANGED << concentrations, parseVars, gasVars >>

NextNumeric == CallSlot

SpecNumeric == InitNumeric /\ [][NextNumeric]_vars

-----------------------------------------------------------------------------
(* Properties of the numbers handed to the engine (checked under           *)
(* SpecNumeric).                                                           *)

ReactorMade == resolved # NotCalled /\ resolved.call.reactor # << >>

\* | 10 * x - n |  <=  n * 2^-52 : x is a tenth of the whole number n up to
\* the rounding of the float 0.1 and of one float product
NearTenth(x, n) ==
    LET down  == IF x.e < 0 THEN -x.e ELSE 0
        tenx  == Shl(MulBits(x.m, BitsOf(10)), x.e + down)
        whole == Shl(BitsOf(n), down)
        diff  == IF GeqBits(tenx, whole) THEN SubBits(tenx, whole)
                 ELSE SubBits(whole, tenx)
    IN  GeqBits(whole, Shl(diff, Precision - 1))

\* C11: the reactor of slot i is created with liquid volume Q * HRT_i, the
\* session's flow times the retention time of that slot, and with gas volume
\* 0.1 times that liquid volume (a tenth of it, up to the rounding of floats).
C11_ReactorSizedFromFlowAndOwnHrt ==
    ReactorMade =>
        LET made == resolved.call.reactor[1]
            n    == Q * sim_params[resolved.slot].HRT
        IN  /\ made.V_liq = FromInt(n)
            /\ made.V_gas = FMul(PointOne, FromInt(n))
            /\ NearTenth(made.V_gas, n)

\* slot 2 of a session with Q = 171 and retention times 30, 45, 60:
\* V_liq = 7695 and V_gas = 769.5
C11_Witness ==
    /\ ReactorMade
    /\ resolved.slot = 2
    /\ Q = 171
    /\ sim_params[1].HRT = 30 /\ sim_params[2].HRT = 45
    /\ resolved.call.reactor[1].V_liq = FromInt(7695)
    /\ resolved.call.reactor[1].V_gas = Hundredths(76950)

\* the engine was asked to integrate
GridMade == resolved # NotCalled /\ resolved.call.simulate # << >>

\* C13 (as claimed): when the horizon is a whole multiple of the step, the
\* evaluation times handed to the engine are horizon/step + 1 points spaced
\* by the step, the first 0 and the last the horizon.
C13_GridHasHorizonOverStepPlusOnePoints ==
    (GridMade /\ simulation_time % t_step = 0) =>
        LET t_eval == resolved.call.simulate[1].t_eval
        IN  /\ t_eval.len = simulation_time \div t_step + 1
            /\ t_eval.step = Hundredths(t_step)
            /\ t_eval.first = FromInt(0)
            /\ t_eval.last = Hundredths(simulation_time)

\* C14 (as claimed): every evaluation time handed to the engine lies within
\* [0, horizon]; the times grow with their index, so the first and the last
\* decide.
C14_GridWithinHorizon ==
    GridMade =>
        LET t_eval == resolved.call.simulate[1].t_eval
        IN  /\ t_eval.len >= 1
            /\ FLeq(FromInt(0), t_eval.first)
            /\ FLeq(t_eval.last, Hundredths(resolved.call.simulate[1].t_span[2]))

-----------------------------------------------------------------------------
(* Further properties of the session (checked under Spec).                 *)

\* the defaults of run_simulation with the stored overrides laid over them
DefaultsWith(overrides) ==
    [n \in DOMAIN default_conc |->
        IF n \in DOMAIN overrides THEN overrides[n] ELSE default_conc[n]]

\* C21: when exactly one feedstock name was ever set, every value the
\* feedstock panel has stored and the concentrations of every engine call of
\* a Run All hold that value for that name and, for each of the other 25
\* names, the default of run_simulation.
C21_OneOverrideRestDefault ==
    (pc # "start" /\ Cardinality(DOMAIN feed_overrides) = 1) =>
        /\ Cardinality(DOMAIN default_conc \ DOMAIN feed_overrides) = 25
        /\ \A n \in DOMAIN influent_values :
               influent_values[n] = DefaultsWith(feed_overrides)[n]
        /\ pc = "running" =>
               \A i \in Slots :
                   (engine_calls[i] # << >> /\ engine_calls[i][1].influent # << >>) =>
                       engine_calls[i][1].influent[1].concentrations
                           = DefaultsWith(feed_overrides)

\* S_su set to 0.05 by hand in a fresh session, then Run All
C21_Witness ==
    /\ pc = "running" /\ slot = 4
    /\ npass = 2
    /\ ai_recommendations = << >>
    /\ edited = {"S_su"}
    /\ DOMAIN feed_overrides = {"S_su"}
    /\ \A i \in Slots :
           /\ engine_calls[i][1].influent # << >>
           /\ engine_calls[i][1].influent[1].concentrations["S_su"] = Dec(5, -2)
           /\ engine_calls[i][1].influent[1].concentrations["X_I"] = Dec(25, 0)

\* C22 (checked under SpecResolve): a call of run_simulation or of
\* create_influent_stream leaves the override maps it was given as they were,
\* whether it succeeds or fails, and a later call with another map hands the
\* engine exactly what that map alone resolves to: nothing of the earlier
\* call's map is left in it.
C22_ResolutionLeavesNoTrace ==
    /\ [][ (resolved' # resolved /\ resolved'.nth = 1) =>
               /\ concentrations' = concentrations
               /\ kinetic_params' = kinetic_params ]_vars
    /\ [][ kinetic_params' = kinetic_params ]_vars
    /\ [] ( (resolved.outcome = "called" /\ resolved.nth = 2
                /\ resolved.call.influent # << >>) =>
              resolved.call.influent[1].concentrations
                  = [n \in DOMAIN default_conc |->
                        IF n \in DOMAIN concentrations
                        THEN concentrations[n] ELSE default_conc[n]] )

\* S_su was overridden in the first call and is not in the map of the second
C22_Witness ==
    /\ resolved.outcome = "called"
    /\ resolved.nth = 2
    /\ resolved.fn = "run_simulation"
    /\ resolved.fault = "simulate"
    /\ concentrations = [X_I |-> Dec(3, 0)]
    /\ resolved.call.influent[1].concentrations["X_I"] = Dec(3, 0)
    /\ resolved.call.influent[1].concentrations["S_su"] = Dec(1, -2)

\* the session's override maps across a whole Run All (checked under Spec)
RunAllKeepsOverrideMaps ==
    [][ pc = "running" =>
            /\ influent_values' = influent_values
            /\ kinetic_params' = kinetic_params ]_vars

\* what parse_ai_recommendations extracted from the answer just stored
JustExtracted == parse_ai_recommendations(ai_recommendations', use_kinetics).ret

\* d2 is d with the entries of new laid over it: the names of new hold the
\* values of new, every other entry of d is kept, and nothing else is there
MergedInto(d, new, d2) ==
    /\ DOMAIN d2 = DOMAIN d \cup DOMAIN new
    /\ \A n \in DOMAIN new : d2[n] = new[n]
    /\ \A n \in DOMAIN d \ DOMAIN new : d2[n] = d[n]

\* C23: an ingestion (a click whose request returned a text, and the script
\* got through main.py:107-122) merges what was extracted: every extracted feedstock name holds the AI value and the AI
\* explanation afterwards, in kinetics mode so does every extracted kinetic
\* name, and every entry the extraction does not name keeps its value.
C23_IngestionMergesExtraction ==
    [][ (AnswerStep /\ ai_call'.ingested) =>
            /\ MergedInto(influent_values, JustExtracted[1], influent_values')
            /\ MergedInto(influent_explanations, JustExtracted[2], influent_explanations')
            /\ use_kinetics =>
                   /\ MergedInto(kinetic_params, JustExtracted[3], kinetic_params')
                   /\ MergedInto(kinetic_explanations, JustExtracted[4],
                                 kinetic_explanations') ]_vars

\* in kinetics mode, after a manual edit of S_h2, an answer that names S_su
\* and k_su was ingested: both hold the AI values, S_h2 keeps the edit
C23_Witness ==
    /\ pc = "assistant"
    /\ ai_call.clicked /\ ai_call.ingested
    /\ use_kinetics
    /\ DOMAIN kinetic_params = kinetic_keys
    /\ "S_h2" \in DOMAIN feed_overrides
    /\ influent_values["S_h2"] = Zero
    /\ influent_values["S_su"] = Dec(25, -1)
    /\ "S_su" \in DOMAIN influent_explanations
    /\ "S_h2" \notin DOMAIN influent_explanations
    /\ "k_su" \in DOMAIN kinetic_explanations
    /\ kinetic_params["k_su"] # kinetic_defaults["k_su"]
    /\ kinetic_params["k_aa"] = kinetic_defaults["k_aa"]

\* C24: in feedstock-only mode a click on "Get AI Recommendations" leaves the
\* stored kinetic parameters and kinetic explanations as they were, whatever
\* the answer holds: the extraction is asked for no kinetic entry (and returns
\* none), and the ingestion writes the kinetic maps in kinetics mode only.
C24_FeedstockModeKeepsKinetics ==
    [][ ((ClickStep \/ AnswerStep) /\ ~use_kinetics) =>
            /\ kinetic_params' = kinetic_params
            /\ kinetic_explanations' = kinetic_explanations
            /\ ai_call'.answered =>
                   /\ DOMAIN JustExtracted[3] = {}
                   /\ DOMAIN JustExtracted[4] = {} ]_vars

\* kinetic values were stored in kinetics mode; back in feedstock-only mode an
\* answer that names k_su was ingested
C24_Witness ==
    /\ ai_call.clicked /\ ai_call.ingested
    /\ ~use_kinetics
    /\ "k_su" \in DOMAIN parse_ai_recommendations(ai_recommendations, TRUE).ret[3]
    /\ "S_su" \in DOMAIN influent_explanations
    /\ "k_su" \in DOMAIN kinetic_params
    /\ kinetic_params["k_su"] = kinetic_defaults["k_su"]
    /\ kinetic_explanations = EmptyMap

\* sim_results[i] is None: the slot was never run
NeverRun(res) == res = << >>

\* res is not None and all(res)
Successful(res) ==
    /\ Len(res) = 4
    /\ \A k \in 1 .. 4 : res[k] # PyNone /\ res[k].kind \in {"sys", "inf", "eff", "gas"}

\* the script is between two turns of  for i in range(3)
InsideLoop == pc = "running" /\ slot \in Slots

\* any_sim_ran is true and  for i, (sys_i, inf_i, eff_i, gas_i) in enumerate(...)
\* comes to a slot that is None: TypeError
UnpackRaises ==
    /\ \E i \in Slots : Successful(sim_results[i])
    /\ \E i \in Slots : NeverRun(sim_results[i])

\* C25: every slot of sim_results is None (never run), four handles, or four
\* None, never a mixture; and wherever the script reads the results (outside
\* the Run All loop), if some slot holds a successful result then no slot is
\* None, so the loops that unpack every slot as a 4-tuple have a 4-tuple in
\* every slot.
C25_ResultsAreWholeOrAbsent ==
    /\ \A i \in Slots :
           \/ NeverRun(sim_results[i])
           \/ Successful(sim_results[i])
           \/ sim_results[i] = NoResult
    /\ ~InsideLoop => ~UnpackRaises

\* C26: while a Run All executes in kinetics mode, kinetic_params names all
\* 49 kinetic parameters (the kinetic panel stored them in the rerun that
\* selected the mode, before any Run All could be clicked), so no run finds
\* use_kinetics true with an empty kinetic map: every reaction model of the
\* run is built from the stored map.
C26_KineticsRunHasAllParameters ==
    (pc = "running" /\ use_kinetics) =>
        /\ Cardinality(kinetic_keys) = 49
        /\ kinetic_keys \subseteq DOMAIN kinetic_params
        /\ Truthy(kinetic_params)
        /\ \A i \in Slots :
               engine_calls[i] # << >> =>
                   /\ engine_calls[i][1].ADM1[1].kwargs # EmptyMap
                   /\ kinetic_keys \subseteq DOMAIN engine_calls[i][1].ADM1[1].kwargs

\* C27: the notice "All simulations completed successfully!" is on the page
\* only when every one of the three slots holds a successful result of the
\* Run All that showed it.
C27_NoticeOnlyWhenAllSucceeded ==
    notice =>
        \A i \in Slots :
            /\ returned[i] # << >>
            /\ returned[i][1].fault = "none"
            /\ Successful(sim_results[i])

-----------------------------------------------------------------------------
(* The order of the runs of a Run All (checked under SpecFair).            *)

\* slot i was run in the current Run All and its result is stored
RunAndStored(i) ==
    /\ engine_calls[i] # << >>
    /\ returned[i] # << >>
    /\ sim_results[i] = returned[i][1].ret

\* C28: a Run All runs slot 1, then slot 2, then slot 3: when the run of a
\* slot starts, every earlier slot has returned (or failed) and its result is
\* stored, and no later slot has been started; the loop is left only after
\* the third run, and every click gets there, whatever failed; each run
\* gets the flow of the session and the temperature, the retention time and
\* the method of its own slot.
C28_SlotsRunInOrderAllAttempted ==
    /\ [] (pc = "running" =>
             /\ slot \in 1 .. 4
             /\ \A i \in Slots :
                    /\ i < slot => RunAndStored(i)
                    /\ i >= slot => engine_calls[i] = << >> /\ returned[i] = << >>
             /\ \A i \in Slots :
                    engine_calls[i] # << >> =>
                        LET c == engine_calls[i][1] IN
                        /\ c.influent # << >> =>
                               c.influent[1].Q = Q /\ c.influent[1].T = sim_params[i].Temp
                        /\ c.reactor # << >> =>
                               /\ c.reactor[1].T = sim_params[i].Temp
                               /\ c.reactor[1].V_liq = ReactorVolumes[Q, sim_params[i].HRT].V_liq
                               /\ c.reactor[1].V_gas = ReactorVolumes[Q, sim_params[i].HRT].V_gas
                        /\ c.simulate # << >> =>
                               c.simulate[1].method = sim_params[i].method)
    /\ [][ (pc = "running" /\ slot \in Slots) =>
               /\ pc' = "running"
               /\ slot' = slot + 1
               /\ engine_calls'[slot] # << >>
               /\ returned'[slot] # << >>
               /\ sim_results'[slot] = returned'[slot][1].ret ]_vars
    /\ [][ (pc = "running" /\ pc' # "running") =>
               slot = 4 /\ \A i \in Slots : RunAndStored(i)' ]_vars
    /\ (pc = "running") ~> (pc # "running" /\ \A i \in Slots : RunAndStored(i))

====
